---- MODULE Spec2Model ----
(***************************************************************************)
(* A model of the image-generation driver sui.py (and of the stand-alone   *)
(* aspect calculator aspect.py): the parameter merge, the catalog lookup,  *)
(* the aspect-ratio resolver and the per-item pipeline of the gen command; *)
(* and of the main loop of the wallpaper rotator waifupaper.py.            *)
(*                                                                         *)
(* Python strings are sequences of one-character strings, so that          *)
(* str.split, the `in` substring test, str.casefold and int() are          *)
(* computed the way the code computes them.                                *)
(***************************************************************************)
EXTENDS Integers, Sequences, FiniteSets, TLC

VARIABLES
    \* get_aspect_pixels / max_dimensions, run step by step
    a_pc, a_ratio, a_side, a_rounding, a_width, a_height,
    a_start,     \* the width and height the budget loop was entered with
    a_iter,      \* the passes of the budget loop made so far
    \* swarmui.merge_params, called on a list of sets
    m_pc, m_sets, m_out,
    \* substring_match, called on a query and a list of names
    sm_pc, sm_item, sm_list, sm_type, sm_out,
    \* the gen command: its options, its locals and what it has done so far
    g_pc,        \* the place reached in the loop body
    g_opt,       \* the command line (ctx.parent.params and gen's own options)
    g_sources,   \* the items: files with metadata, or literal prompts
    g_idx,       \* the item being processed
    g_loras,     \* the local `loras`, reassigned at line 572
    g_lut_name,  \* the local `lut_name`, reassigned at line 609
    g_params,    \* the local `image_params`
    g_merged,    \* image_params as it stood after line 556, for this item
    g_size,      \* the locals sidelength and rounding (<<>>: not bound)
    g_old,       \* the locals old_w, old_h of the resolution fix-up
    g_crop,      \* s.crop
    g_seq,       \* the local `seq`
    g_outname,   \* the local `outname`
    g_disk,      \* the output names that exist as files
    g_sent,      \* the requests posted to the service, in order
    g_exit,      \* the exit status: -1 while running
    \* process.apply, called on an ops dict and an image
    p_pc, p_op, p_order, p_image, p_savefails, p_out,
    \* _array2str and then _str2array, called on a value
    r_pc, r_in, r_out,
    \* the wallpaper rotator (waifupaper.py): its main loop and the directories
    w_pc,        \* the place reached in the main loop
    w_sort,      \* args.sort
    w_fs,        \* the directories on disk: modification time and image files
    w_seen,      \* directory_states
    w_disp,      \* display_images
    w_iter       \* the local `iteration`

a_vars == <<a_pc, a_ratio, a_side, a_rounding, a_width, a_height, a_start, a_iter>>
m_vars == <<m_pc, m_sets, m_out>>
sm_vars == <<sm_pc, sm_item, sm_list, sm_type, sm_out>>
g_vars == <<g_pc, g_opt, g_sources, g_idx, g_loras, g_lut_name, g_params, g_merged,
            g_size, g_old, g_crop, g_seq, g_outname, g_disk, g_sent, g_exit>>
p_vars == <<p_pc, p_op, p_order, p_image, p_savefails, p_out>>
r_vars == <<r_pc, r_in, r_out>>
w_vars == <<w_pc, w_sort, w_fs, w_seen, w_disp, w_iter>>
vars == <<a_vars, m_vars, sm_vars, g_vars, p_vars, r_vars, w_vars>>

-----------------------------------------------------------------------------
(* Bounds of the model *)

MaxSide == 6
MaxRounding == 3
MaxAspect == 3
MaxPixels == 7
MaxSets == 3
MaxNames == 3
MaxRules == 2
MaxOverrides == 2
MaxLoras == 2
MaxSeq == 6
MaxList == 3
MaxStart == 4
MaxFiles == 2
MaxMtime == 2

-----------------------------------------------------------------------------
(* Python string primitives *)

\* a string literal as the sequence of its characters
Chars(str) == [i \in 1..Len(str) |-> SubSeq(str, i, i)]

Digits == Chars("0123456789")

\* the decimal spelling of a natural number (str(n)); used to write inputs
RECURSIVE Dec(_)
Dec(n) == IF n < 10 THEN <<Digits[n + 1]>> ELSE Dec(n \div 10) \o <<Digits[(n % 10) + 1]>>

IsDigit(c) == \E i \in 1..10 : Digits[i] = c

DigitVal(c) == (CHOOSE i \in 1..10 : Digits[i] = c) - 1

\* int(s) / float(s) succeed on the strings drawn here exactly when s is a
\* non-empty run of digits; anything else raises ValueError
IsNumeric(s) == Len(s) > 0 /\ \A i \in 1..Len(s) : IsDigit(s[i])

RECURSIVE StrToInt(_)
StrToInt(s) ==
    IF Len(s) = 0 THEN 0
    ELSE 10 * StrToInt(SubSeq(s, 1, Len(s) - 1)) + DigitVal(s[Len(s)])

\* c in s, for a one-character c
HasChar(s, c) == \E i \in 1..Len(s) : s[i] = c

\* position of the first c in s (s contains c)
FirstPos(s, c) == CHOOSE i \in 1..Len(s) : s[i] = c /\ \A j \in 1..(i - 1) : s[j] # c

\* s.split(c): the list of the parts between the separators
RECURSIVE Split(_, _)
Split(s, c) ==
    IF ~HasChar(s, c) THEN <<s>>
    ELSE <<SubSeq(s, 1, FirstPos(s, c) - 1)>>
            \o Split(SubSeq(s, FirstPos(s, c) + 1, Len(s)), c)

\* s.split(c, 1): at most one split, at the first separator
Split1(s, c) ==
    IF ~HasChar(s, c) THEN <<s>>
    ELSE <<SubSeq(s, 1, FirstPos(s, c) - 1), SubSeq(s, FirstPos(s, c) + 1, Len(s))>>

-----------------------------------------------------------------------------
(* get_aspect_pixels (sui.py) and max_dimensions (aspect.py)               *)

\* floor(side * sqrt(a / b)): the exact value of int(a * sqrt(side*side/(a*b)))
ExactIdeal(side, a, b) ==
    CHOOSE n \in 0..(side * a) :
        /\ n * n * b <= side * side * a
        /\ (n + 1) * (n + 1) * b > side * side * a

\* int(ideal): scale, ideal_w and ideal_h are IEEE doubles, and the rounding
\* of the division, the square root and the product can leave the truncated
\* value one off the exact floor, in either direction
IntIdeal(side, a, b) ==
    {n \in {ExactIdeal(side, a, b) - 1, ExactIdeal(side, a, b), ExactIdeal(side, a, b) + 1} :
        n >= 0}

\* a mutant of Snap: the remainder is not taken off
Snap_keep(v, rounding) == v

\* int(ideal) - (int(ideal) % rounding)
Snap(v, rounding) == v - (v % rounding)

\* the guard of the budget-correction loop
OverBudget(width, height, side) ==
    width * height > side * side /\ width > 0 /\ height > 0

\* the aspect pair parsed from the ratio string: 1:1 when it holds no ':'
AspectOf(ratio) ==
    IF ~HasChar(ratio, ":") THEN <<1, 1>>
    ELSE <<StrToInt(Split(ratio, ":")[1]), StrToInt(Split(ratio, ":")[2])>>

\* the ratio string parses: 'WxH' as two ints, 'a:b' as two positive floats
RatioParses(ratio) ==
    IF HasChar(ratio, "x")
    THEN /\ Len(Split(ratio, "x")) = 2
         /\ \A i \in 1..2 : IsNumeric(Split(ratio, "x")[i])
    ELSE HasChar(ratio, ":") =>
            /\ Len(Split(ratio, ":")) = 2
            /\ \A i \in 1..2 : IsNumeric(Split(ratio, ":")[i])
            /\ \A i \in 1..2 : StrToInt(Split(ratio, ":")[i]) > 0

\* a mutant of ShrinkStep: a tie takes the rounding off the height
ShrinkStep_height(width, height, rounding) ==
    IF width > height THEN <<width - rounding, height>>
    ELSE <<width, height - rounding>>

\* one pass of the loop body
ShrinkStep(width, height, rounding) ==
    IF width >= height THEN <<width - rounding, height>>
    ELSE <<width, height - rounding>>

\* the loop run to its end
RECURSIVE ShrinkLoop(_, _, _, _)
ShrinkLoop(width, height, side, rounding) ==
    IF OverBudget(width, height, side)
    THEN ShrinkLoop(ShrinkStep(width, height, rounding)[1],
                    ShrinkStep(width, height, rounding)[2], side, rounding)
    ELSE <<width, height>>

\* every (width, height) get_aspect_pixels can return for a ratio that parses
get_aspect_pixels(ratio, side, rounding) ==
    IF HasChar(ratio, "x")
    THEN {<<StrToInt(Split(ratio, "x")[1]), StrToInt(Split(ratio, "x")[2])>>}
    ELSE {ShrinkLoop(Snap(iw, rounding), Snap(ih, rounding), side, rounding) :
            iw \in IntIdeal(side, AspectOf(ratio)[1], AspectOf(ratio)[2]),
            ih \in IntIdeal(side, AspectOf(ratio)[2], AspectOf(ratio)[1])}

\* the ratio strings drawn as inputs
AspectRatios ==
    {Dec(a) \o <<":">> \o Dec(b) : a \in 1..MaxAspect, b \in 1..MaxAspect}
    \cup {Dec(w) \o <<"x">> \o Dec(h) : w \in {MaxPixels}, h \in 1..MaxPixels}
    \cup {<<"1">>}

AspectIdle ==
    /\ a_pc = "idle" /\ a_ratio = <<>> /\ a_side = 0 /\ a_rounding = 0
    /\ a_width = 0 /\ a_height = 0 /\ a_start = <<>> /\ a_iter = 0

AspectInit ==
    /\ a_pc = "call"
    /\ a_ratio \in AspectRatios
    /\ a_side \in 1..MaxSide
    /\ a_rounding \in 1..MaxRounding
    /\ a_width = 0
    /\ a_height = 0
    /\ a_start = <<>>
    /\ a_iter = 0

\* lines 906-909: an explicit WxH is returned as it is
AspectExplicit ==
    /\ a_pc = "call"
    /\ HasChar(a_ratio, "x")
    /\ a_width' = StrToInt(Split(a_ratio, "x")[1])
    /\ a_height' = StrToInt(Split(a_ratio, "x")[2])
    /\ a_pc' = "done"
    /\ UNCHANGED <<a_ratio, a_side, a_rounding, a_start, a_iter>>

\* lines 910-919: the ideal dimensions, snapped down
AspectSnap ==
    /\ a_pc = "call"
    /\ ~HasChar(a_ratio, "x")
    /\ \E iw \in IntIdeal(a_side, AspectOf(a_ratio)[1], AspectOf(a_ratio)[2]),
          ih \in IntIdeal(a_side, AspectOf(a_ratio)[2], AspectOf(a_ratio)[1]) :
            /\ a_width' = Snap(iw, a_rounding)
            /\ a_height' = Snap(ih, a_rounding)
    /\ a_start' = <<a_width', a_height'>>
    /\ a_pc' = "loop"
    /\ UNCHANGED <<a_ratio, a_side, a_rounding, a_iter>>

\* lines 920-924: one iteration of the budget-correction loop
AspectShrink ==
    /\ a_pc = "loop"
    /\ OverBudget(a_width, a_height, a_side)
    /\ a_width' = ShrinkStep(a_width, a_height, a_rounding)[1]
    /\ a_height' = ShrinkStep(a_width, a_height, a_rounding)[2]
    /\ a_iter' = a_iter + 1
    /\ UNCHANGED <<a_pc, a_ratio, a_side, a_rounding, a_start>>

\* line 925
AspectReturn ==
    /\ a_pc = "loop"
    /\ ~OverBudget(a_width, a_height, a_side)
    /\ a_pc' = "done"
    /\ UNCHANGED <<a_ratio, a_side, a_rounding, a_width, a_height, a_start, a_iter>>

-----------------------------------------------------------------------------
(* Parameter values and parameter sets                                     *)

\* a Python value: a str, a list of str, an int, a bool or a float, all in
\* one record shape so that values of different types compare (unequal)
StrV(s) == [kind |-> "str", s |-> s, l |-> <<>>, n |-> 0]
ListV(l) == [kind |-> "list", s |-> <<>>, l |-> l, n |-> 0]
IntV(n) == [kind |-> "int", s |-> <<>>, l |-> <<>>, n |-> n]
BoolV(b) == [kind |-> "bool", s |-> <<>>, l |-> <<>>, n |-> IF b THEN 1 ELSE 0]
\* a float is held in tenths: FloatV(10) is 1.0
FloatV(n) == [kind |-> "float", s |-> <<>>, l |-> <<>>, n |-> n]

UNSET == Chars("unset")

\* value == 'unset'
IsUnset(v) == v.kind = "str" /\ v.s = UNSET

\* dict(), d[k] = v, del d[k]
EmptyDict == [k \in {} |-> IntV(0)]
DictSet(d, k, v) == [x \in DOMAIN d \cup {k} |-> IF x = k THEN v ELSE d[x]]
DictDel(d, k) == [x \in DOMAIN d \ {k} |-> d[x]]

-----------------------------------------------------------------------------
(* swarmui.merge_params                                                    *)

\* a mutant of MergeItem: the sentinel is stored like any other value
MergeItem_store(params, item, value) == DictSet(params, item, value)

\* a mutant of MergeItem: a key already merged keeps its first value
MergeItem_first(params, item, value) ==
    IF item \in DOMAIN params THEN params ELSE DictSet(params, item, value)

\* lines 184-187: the body of the inner loop
MergeItem(params, item, value) ==
    IF IsUnset(value) /\ item \in DOMAIN params
    THEN DictDel(params, item)
    ELSE DictSet(params, item, value)

\* line 183: for item in s (the keys of a dict are distinct, so the order
\* in which they are visited does not change the outcome)
RECURSIVE MergeSet(_, _, _)
MergeSet(params, s, todo) ==
    IF todo = {} THEN params
    ELSE LET item == CHOOSE k \in todo : TRUE
         IN  MergeSet(MergeItem(params, item, s[item]), s, todo \ {item})

\* line 182: for s in sets
RECURSIVE MergeSets(_, _)
MergeSets(params, sets) ==
    IF sets = <<>> THEN params
    ELSE MergeSets(MergeSet(params, Head(sets), DOMAIN Head(sets)), Tail(sets))

\* lines 179-188
merge_params(sets) == MergeSets(EmptyDict, sets)

\* the dicts drawn as inputs of merge_params: at most two of the keys a, b, c
MergeValues(k) ==
    IF k = "a" THEN {IntV(1), IntV(2), StrV(UNSET)}
    ELSE IF k = "b" THEN {IntV(2), StrV(UNSET)}
    ELSE {IntV(3), StrV(UNSET)}

IntVs(S) == {IntV(n) : n \in S}

MergeInputs ==
    UNION {{d \in [D -> IntVs(1..3) \cup {StrV(UNSET)}] : \A k \in D : d[k] \in MergeValues(k)} :
            D \in {E \in SUBSET {"a", "b", "c"} : Cardinality(E) <= 2}}

SeqsUpTo(S, n) == UNION {[1..k -> S] : k \in 0..n}

MergeIdle == m_pc = "idle" /\ m_sets = <<>> /\ m_out = EmptyDict

MergeInit ==
    /\ m_pc = "call"
    /\ m_sets \in SeqsUpTo(MergeInputs, MaxSets)
    /\ m_out = EmptyDict

MergeCall ==
    /\ m_pc = "call"
    /\ m_out' = merge_params(m_sets)
    /\ m_pc' = "done"
    /\ UNCHANGED m_sets

-----------------------------------------------------------------------------
(* substring_match                                                         *)

\* str.casefold on the letters drawn here
Upper == Chars("ABCDEFGHIJKLMNOPQRSTUVWXYZ")
Lower == Chars("abcdefghijklmnopqrstuvwxyz")

FoldChar(c) ==
    IF \E i \in 1..26 : Upper[i] = c
    THEN Lower[CHOOSE i \in 1..26 : Upper[i] = c]
    ELSE c

casefold(s) == [i \in 1..Len(s) |-> FoldChar(s[i])]

\* item in x, for two strings
Contains(x, item) ==
    \E i \in 0..(Len(x) - Len(item)) : SubSeq(x, i + 1, i + Len(item)) = item

\* a mutant of Matches: the comparison is case-sensitive
Matches_cased(item, x) == Contains(x, item)

\* line 876: item.casefold() in x.casefold()
Matches(item, x) == Contains(casefold(x), casefold(item))

\* a mutant of substring_match: the first match is returned even when
\* there are several
substring_match_first(item, match_list, match_type) ==
    LET matches == SelectSeq(match_list, LAMBDA x : Matches(item, x))
    IN  IF Len(matches) = 0
        THEN [raised |-> "UsageError", error |-> "not found", type |-> match_type,
              item |-> item, matches |-> <<>>, value |-> <<>>]
        ELSE [raised |-> "", error |-> "", type |-> "", item |-> <<>>,
              matches |-> <<>>, value |-> matches[1]]

\* lines 871-881: the value returned, or the click.UsageError raised with
\* what its message names
substring_match(item, match_list, match_type) ==
    LET matches == SelectSeq(match_list, LAMBDA x : Matches(item, x))
    IN  IF Len(matches) > 1
        THEN [raised |-> "UsageError", error |-> "ambiguous", type |-> match_type,
              item |-> item, matches |-> matches, value |-> <<>>]
        ELSE IF Len(matches) = 0
        THEN [raised |-> "UsageError", error |-> "not found", type |-> match_type,
              item |-> item, matches |-> <<>>, value |-> <<>>]
        ELSE [raised |-> "", error |-> "", type |-> "", item |-> <<>>,
              matches |-> <<>>, value |-> matches[1]]

\* the names and queries drawn as inputs
MatchNames ==
    {<<"a", "b">>, <<"A", "b">>, <<"b", "A">>, <<"B">>, <<"a">>, <<"c", "a", "B">>}

MatchQueries ==
    {<<"a">>, <<"A">>, <<"b">>, <<"a", "B">>, <<"B", "a">>, <<"c">>, <<"b", "b">>, <<>>}

MatchTypes == {"model", "LoRA", "LUT"}

MatchIdle ==
    /\ sm_pc = "idle" /\ sm_item = <<>> /\ sm_list = <<>> /\ sm_type = ""
    /\ sm_out = substring_match(<<>>, <<>>, "")

MatchInit ==
    /\ sm_pc = "call"
    /\ sm_item \in MatchQueries
    /\ sm_list \in SeqsUpTo(MatchNames, MaxNames)
    /\ sm_type \in MatchTypes
    /\ sm_out = substring_match(<<>>, <<>>, "")

MatchCall ==
    /\ sm_pc = "call"
    /\ sm_out' = substring_match(sm_item, sm_list, sm_type)
    /\ sm_pc' = "done"
    /\ UNCHANGED <<sm_item, sm_list, sm_type>>

-----------------------------------------------------------------------------
(* The gen command: what it reads                                          *)

\* what the service lists: get_models(), get_models(type='LoRA'), get_luts()
ModelCatalog == <<Chars("xlBase"), Chars("xlRefiner"), Chars("zit")>>
LoraCatalog == <<Chars("zelda"), Chars("Zoom"), Chars("link")>>
LutCatalog == <<Chars("warm"), Chars("wood"), Chars("cold")>>

\* the rules of the configuration (lines 104-109): a ~/.sui that holds the
\* sections [sdxl], [zit], [512] and [2x] of default_rules (lines 49-89) and a
\* section [plain] that unsets keys
Config ==
    [sdxl |-> [model |-> StrV(Chars("sd_xl_base_1.0")), cfgscale |-> StrV(Chars("6.5")),
               steps |-> StrV(Chars("36")), sidelength |-> StrV(Chars("1024")),
               rounding |-> StrV(Chars("64")), sampler |-> StrV(Chars("dpmpp_2m_sde_gpu")),
               scheduler |-> StrV(Chars("beta"))],
     zit |-> [model |-> StrV(Chars("z_image_turbo_bf16")), steps |-> StrV(Chars("9")),
              cfgscale |-> StrV(Chars("1.0")), sidelength |-> StrV(Chars("1024")),
              rounding |-> StrV(Chars("64")), sampler |-> StrV(Chars("euler_ancestral")),
              scheduler |-> StrV(Chars("simple")), sigmashift |-> StrV(Chars("3.0")),
              fix_resolution |-> StrV(Chars("true"))],
     r512 |-> [sidelength |-> StrV(Chars("512")), rounding |-> StrV(Chars("16"))],
     x2 |-> [refinercontrolpercentage |-> StrV(Chars("0.4")),
             refinermethod |-> StrV(Chars("PostApply")),
             refinerupscale |-> StrV(Chars("2.0")),
             refinerupscalemethod |-> StrV(Chars("pixel-lanczos")),
             refinersampler |-> StrV(Chars("seeds_2")),
             refinerscheduler |-> StrV(Chars("kl_optimal")),
             refinerdotiling |-> StrV(Chars("true"))],
     plain |-> [steps |-> StrV(UNSET), fix_resolution |-> StrV(UNSET),
                sigmashift |-> StrV(UNSET)]]

\* lines 172-177
get_rule_params(rule) ==
    IF rule \in DOMAIN Config THEN Config[rule] ELSE EmptyDict

\* lines 537-546: the parameters an item starts from
ItemParams(src) ==
    IF src.isfile
    THEN DictSet([k \in DOMAIN src.meta \ {"imageformat", "donotsave"} |-> src.meta[k]],
                 "personalnote", StrV(src.name))
    ELSE DictSet(EmptyDict, "prompt", StrV(src.name))

\* lines 547-551: each rule merged over what is there
RECURSIVE ApplyRules(_, _)
ApplyRules(params, rules) ==
    IF rules = <<>> THEN params
    ELSE ApplyRules(merge_params(<<params, get_rule_params(Head(rules))>>), Tail(rules))

\* lines 552-556: each k=v of --params stored
RECURSIVE ApplyOverrides(_, _)
ApplyOverrides(params, pairs) ==
    IF pairs = <<>> THEN params
    ELSE ApplyOverrides(DictSet(params, Head(pairs)[1], StrV(Head(pairs)[2])), Tail(pairs))

-----------------------------------------------------------------------------
(* The gen command: models, LoRAs and LUTs                                 *)

\* the exit status of the process when an exception leaves gen: click
\* reports a UsageError and exits 2, any other exception is a traceback
ExitOf(raised) == IF raised = "UsageError" THEN 2 ELSE 1

\* lines 557-561
ModelStage(params, model) ==
    IF model = <<>> THEN [raised |-> "", params |-> params]
    ELSE LET m == substring_match(model, ModelCatalog, "model")
         IN  IF m.raised # "" THEN [raised |-> m.raised, params |-> params]
             ELSE [raised |-> "", params |-> DictSet(params, "model", StrV(m.value))]

\* x in l, for a list l
InList(x, l) == \E i \in 1..Len(l) : l[i] = x

\* l.remove(x): the first x of l is taken out
RemoveFirst(l, x) ==
    LET i == CHOOSE i \in 1..Len(l) : l[i] = x /\ \A j \in 1..(i - 1) : l[j] # x
    IN  SubSeq(l, 1, i - 1) \o SubSeq(l, i + 1, Len(l))

\* lines 567-571: a reference with a ':' whose name is already in the
\* item's loras is taken out of new_loras
RECURSIVE DropKnown(_, _, _)
DropKnown(new_loras, todo, have) ==
    IF todo = <<>> THEN new_loras
    ELSE DropKnown(IF HasChar(Head(todo), ":") /\ InList(Split1(Head(todo), ":")[1], have)
                   THEN RemoveFirst(new_loras, Head(todo))
                   ELSE new_loras,
                   Tail(todo), have)

\* lines 575-583: each reference split at its first ':' and looked up
RECURSIVE ResolveLoras(_, _, _)
ResolveLoras(todo, names, weights) ==
    IF todo = <<>> THEN [raised |-> "", names |-> names, weights |-> weights]
    ELSE LET lora == IF HasChar(Head(todo), ":") THEN Split1(Head(todo), ":")[1]
                     ELSE Head(todo)
             loraweight == IF HasChar(Head(todo), ":") THEN Split1(Head(todo), ":")[2]
                           ELSE Chars("1")
             m == substring_match(lora, LoraCatalog, "LoRA")
         IN  IF m.raised # ""
             THEN [raised |-> m.raised, names |-> names, weights |-> weights]
             ELSE ResolveLoras(Tail(todo), Append(names, m.value),
                               Append(weights, loraweight))

\* line 597
SectionCode(l_section) == IF l_section = Chars("base") THEN Chars("5") ELSE Chars("1")

\* lines 591-600: the loop over loraweights; i counts from 1
RECURSIVE Confine(_, _, _, _)
Confine(weights, ls_confine, i, use_confine) ==
    IF i > Len(weights)
    THEN [raised |-> "", weights |-> weights, ls_confine |-> ls_confine,
          use_confine |-> use_confine]
    ELSE IF i <= Len(ls_confine)
    THEN Confine(weights, ls_confine, i + 1, use_confine)
    ELSE IF HasChar(weights[i], ":")
    THEN IF Len(Split(weights[i], ":")) # 2
         THEN [raised |-> "ValueError", weights |-> weights, ls_confine |-> ls_confine,
               use_confine |-> use_confine]
         ELSE Confine([weights EXCEPT ![i] = Split(weights[i], ":")[1]],
                      Append(ls_confine, SectionCode(Split(weights[i], ":")[2])),
                      i + 1, TRUE)
    ELSE Confine(weights, Append(ls_confine, Chars("0")), i + 1, use_confine)

\* the value of a key that holds a list (the array fields of the metadata);
\* list operations on anything else raise
IsListAt(params, k) == k \in DOMAIN params => params[k].kind = "list"

\* the list stored whether or not a weight named a section
StoreConfine_always(params, ls_confine, use_confine) ==
    DictSet(params, "lorasectionconfinement", ListV(ls_confine))

\* lines 601-602
StoreConfine(params, ls_confine, use_confine) ==
    IF use_confine
    THEN DictSet(params, "lorasectionconfinement", ListV(ls_confine))
    ELSE params

\* lines 562-602
LoraStage(params, loras) ==
    IF loras = <<>> THEN [raised |-> "", params |-> params, loras |-> loras]
    ELSE IF ~(IsListAt(params, "loras") /\ IsListAt(params, "loraweights")
              /\ IsListAt(params, "lorasectionconfinement"))
    THEN [raised |-> "TypeError", params |-> params, loras |-> loras]
    ELSE
    LET p1 == IF "loras" \notin DOMAIN params
              THEN DictSet(params, "loras", ListV(<<>>)) ELSE params
        new_loras == DropKnown(loras, loras, p1["loras"].l)
        p2 == IF "loraweights" \notin DOMAIN p1
              THEN DictSet(p1, "loraweights", ListV(<<>>)) ELSE p1
        r == ResolveLoras(new_loras, p2["loras"].l, p2["loraweights"].l)
        p3 == DictSet(DictSet(p2, "loras", ListV(r.names)), "loraweights", ListV(r.weights))
        ls0 == IF "lorasectionconfinement" \in DOMAIN p3
               THEN p3["lorasectionconfinement"].l ELSE <<>>
        c == Confine(r.weights, ls0, 1, FALSE)
        p4 == DictSet(p3, "loraweights", ListV(c.weights))
    IN  IF r.raised # "" THEN [raised |-> r.raised, params |-> p3, loras |-> new_loras]
        ELSE IF c.raised # "" THEN [raised |-> c.raised, params |-> p4, loras |-> new_loras]
        ELSE [raised |-> "",
              params |-> StoreConfine(p4, c.ls_confine, c.use_confine),
              loras |-> new_loras]

\* lines 606-613; 1.0 is written in tenths
LutStage(params, lut_name) ==
    IF lut_name = <<>> THEN [raised |-> "", params |-> params, lut_name |-> lut_name]
    ELSE IF HasChar(lut_name, ":") /\ Len(Split(lut_name, ":")) # 2
    THEN [raised |-> "ValueError", params |-> params, lut_name |-> lut_name]
    ELSE
    LET name == IF HasChar(lut_name, ":") THEN Split(lut_name, ":")[1] ELSE lut_name
        lut_strength == IF HasChar(lut_name, ":") THEN StrV(Split(lut_name, ":")[2])
                        ELSE FloatV(10)
        m == substring_match(name, LutCatalog, "LUT")
    IN  IF m.raised # "" THEN [raised |-> m.raised, params |-> params, lut_name |-> name]
        ELSE [raised |-> "",
              params |-> DictSet(DictSet(DictSet(params, "lutname", StrV(m.value)),
                                         "lutlutstrength", lut_strength),
                                 "lutlogspace", BoolV(FALSE)),
              lut_name |-> name]

-----------------------------------------------------------------------------
(* The gen command: dimensions and the resolution fix-up                   *)

\* bool(v)
Truthy(v) ==
    IF v.kind = "str" THEN v.s # <<>> ELSE IF v.kind = "list" THEN v.l # <<>> ELSE v.n # 0

\* int(v) succeeds; a float is held in tenths
CanInt(v) == v.kind \in {"int", "bool", "float"} \/ (v.kind = "str" /\ IsNumeric(v.s))

ToInt(v) ==
    IF v.kind = "str" THEN StrToInt(v.s)
    ELSE IF v.kind = "float" THEN v.n \div 10
    ELSE v.n

\* float(v) succeeds, for the spellings drawn here: digits, or digits with
\* one decimal digit
CanFloat(v) ==
    \/ v.kind \in {"int", "bool", "float"}
    \/ /\ v.kind = "str"
       /\ \/ IsNumeric(v.s)
          \/ /\ Len(Split(v.s, ".")) = 2
             /\ IsNumeric(Split(v.s, ".")[1])
             /\ IsNumeric(Split(v.s, ".")[2])
             /\ Len(Split(v.s, ".")[2]) = 1

\* float(v), in tenths
ToTenths(v) ==
    IF v.kind = "float" THEN v.n
    ELSE IF v.kind = "str" /\ HasChar(v.s, ".")
    THEN 10 * StrToInt(Split(v.s, ".")[1]) + StrToInt(Split(v.s, ".")[2])
    ELSE 10 * ToInt(v)

\* lines 615-627: the locals sidelength and rounding; size is what they
\* held before (<<>> when not bound yet), and they keep it when neither
\* branch is taken
DimLocals(params, sidelength, size) ==
    IF sidelength # <<>>
    THEN IF HasChar(sidelength, "/") /\ Len(Split(sidelength, "/")) # 2
         THEN [raised |-> "ValueError", size |-> size]
         ELSE LET side == IF HasChar(sidelength, "/") THEN Split(sidelength, "/")[1]
                          ELSE sidelength
                  rounding == IF HasChar(sidelength, "/")
                              THEN StrV(Split(sidelength, "/")[2]) ELSE IntV(64)
              IN  IF ~IsNumeric(side) THEN [raised |-> "ValueError", size |-> size]
                  ELSE [raised |-> "", size |-> <<StrToInt(side), rounding>>]
    ELSE IF "sidelength" \notin DOMAIN params THEN [raised |-> "KeyError", size |-> size]
    ELSE IF ~Truthy(params["sidelength"]) THEN [raised |-> "", size |-> size]
    ELSE IF ~CanInt(params["sidelength"]) THEN [raised |-> "ValueError", size |-> size]
    ELSE IF "rounding" \notin DOMAIN params THEN [raised |-> "KeyError", size |-> size]
    ELSE [raised |-> "",
          size |-> <<ToInt(params["sidelength"]),
                     IF Truthy(params["rounding"]) THEN params["rounding"] ELSE IntV(64)>>]

\* lines 628-629: what stops the call of get_aspect_pixels
DimError(aspect, size) ==
    IF size = <<>> THEN "UnboundLocalError"
    ELSE IF ~CanInt(size[2]) THEN "ValueError"
    ELSE IF ~RatioParses(aspect) THEN "ValueError"
    ELSE IF ~HasChar(aspect, "x") /\ ToInt(size[2]) = 0 THEN "ZeroDivisionError"
    ELSE ""

\* a mutant of RoundUp64: a multiple of 64 is raised to the next one too
RoundUp64_next(v) == (v \div 64 + 1) * 64

\* lines 636-643
RoundUp64(v) == IF v % 64 > 0 THEN (v \div 64 + 1) * 64 ELSE v

\* the halves of the padding rounded up instead of down
CropBox_ceil(old_w, old_h, new_w, new_h, params) ==
    <<(new_w - old_w + 1) \div 2, (new_h - old_h + 1) \div 2,
      old_w + (new_w - old_w + 1) \div 2, old_h + (new_h - old_h + 1) \div 2>>

\* lines 645-650 (int(mul * i), mul in tenths)
CropBox(old_w, old_h, new_w, new_h, params) ==
    LET delta_w == (new_w - old_w) \div 2
        delta_h == (new_h - old_h) \div 2
        crop == <<delta_w, delta_h, old_w + delta_w, old_h + delta_h>>
    IN  IF "refinerupscale" \in DOMAIN params
        THEN [i \in 1..4 |-> (ToTenths(params["refinerupscale"]) * crop[i]) \div 10]
        ELSE crop

\* the crop box is made even when nothing grew
Grew_always(old_w, old_h, new_w, new_h) == TRUE

\* line 644
Grew(old_w, old_h, new_w, new_h) == new_w > old_w \/ new_h > old_h

\* lines 632-652: s.crop, the locals old_w and old_h, and width and height
FixStage(params, old) ==
    IF "fix_resolution" \notin DOMAIN params
    THEN [raised |-> "", params |-> params, crop |-> <<>>, old |-> old]
    ELSE IF "width" \notin DOMAIN params
    THEN [raised |-> "KeyError", params |-> params, crop |-> <<>>, old |-> old]
    ELSE IF ~CanInt(params["width"])
    THEN [raised |-> "ValueError", params |-> params, crop |-> <<>>, old |-> old]
    ELSE IF "height" \notin DOMAIN params
    THEN [raised |-> "KeyError", params |-> params, crop |-> <<>>, old |-> old]
    ELSE IF ~CanInt(params["height"])
    THEN [raised |-> "ValueError", params |-> params, crop |-> <<>>, old |-> old]
    ELSE
    LET old_w == ToInt(params["width"])
        old_h == ToInt(params["height"])
        new_w == RoundUp64(old_w)
        new_h == RoundUp64(old_h)
    IN  IF Grew(old_w, old_h, new_w, new_h)
        THEN IF "refinerupscale" \in DOMAIN params /\ ~CanFloat(params["refinerupscale"])
             THEN [raised |-> "ValueError", params |-> params,
                   crop |-> <<(new_w - old_w) \div 2, (new_h - old_h) \div 2,
                              old_w + (new_w - old_w) \div 2,
                              old_h + (new_h - old_h) \div 2>>,
                   old |-> <<old_w, old_h>>]
             ELSE [raised |-> "",
                   params |-> DictSet(DictSet(params, "width", IntV(new_w)),
                                      "height", IntV(new_h)),
                   crop |-> CropBox(old_w, old_h, new_w, new_h, params),
                   old |-> <<old_w, old_h>>]
        ELSE [raised |-> "", params |-> params, crop |-> <<>>, old |-> <<old_w, old_h>>]

-----------------------------------------------------------------------------
(* The gen command: the output name and the request                        *)

\* str.zfill
RECURSIVE ZFill(_, _)
ZFill(s, pad) == IF Len(s) >= pad THEN s ELSE ZFill(<<"0">> \o s, pad)

\* A template is held as the list of its pieces: a placeholder ("$pre",
\* "$seq", ...) or a literal; "." is a piece of its own.
\* line 888: re.search(r'\..+$', template)
HasSuffix(template) == \E i \in 1..(Len(template) - 1) : template[i] = "."

\* line 661: re.search(r'\$seq', template): the text "$seq" occurs in the
\* template ("$seqx" and "$$seq" hold it, "${seq}" does not)
NamesSeq(template) ==
    \E i \in 1..Len(template) : Contains(Chars(template[i]), Chars("$seq"))

\* Template.safe_substitute on one piece: $name and ${name} are replaced
\* for the names of the mapping, "$$" is an escaped "$", and a placeholder
\* with another name ("$seqx") is left as it is
Substitute(piece, pre, set, seq, pad, ext) ==
    IF piece = "$pre" THEN pre
    ELSE IF piece = "$set" THEN set
    ELSE IF piece \in {"$seq", "${seq}"} THEN ZFill(Dec(seq), pad)
    ELSE IF piece = "$ext" THEN ext
    ELSE IF piece = "$$seq" THEN Chars("$seq")
    ELSE Chars(piece)

RECURSIVE Render(_, _, _, _, _, _)
Render(template, pre, set, seq, pad, ext) ==
    IF template = <<>> THEN <<>>
    ELSE Substitute(Head(template), pre, set, seq, pad, ext)
            \o Render(Tail(template), pre, set, seq, pad, ext)

\* lines 884-901
format_filename(pre, set, seq, pad, ext, template) ==
    IF template # <<>>
    THEN Render(IF HasSuffix(template) THEN template ELSE template \o <<".", "$ext">>,
                pre, set, seq, pad, ext)
    ELSE pre \o <<"-">> \o set \o <<"-">> \o Dec(seq) \o <<".">> \o ext

\* lines 653-656
ExtOf(opt) == IF opt.jpeg_output THEN Chars("jpg") ELSE Chars("png")

\* lines 657-659 and 665-667
NameFor(opt, seq) ==
    format_filename(opt.pre, opt.set, seq, opt.pad, ExtOf(opt), opt.template)

\* ','.join(l)
RECURSIVE Join(_)
Join(l) ==
    IF l = <<>> THEN <<>>
    ELSE IF Len(l) = 1 THEN l[1]
    ELSE l[1] \o <<",">> \o Join(Tail(l))

\* lines 403-406
array2str(d, k) == IF d[k].kind = "list" THEN DictSet(d, k, StrV(Join(d[k].l))) ELSE d

\* the list without the keys of the resolution fix-up
invalid_params_short == {"swarm_version", "host", "port"}

\* lines 28-34
invalid_params == {"swarm_version", "rounding", "fix_resolution", "host", "port"}

\* the keys of ctx.parent.params, the options of the cli group (lines 414-451)
ParentParams ==
    {"host", "port", "aspect", "sidelength", "fix_resolution", "jpeg_output",
     "jpeg_quality", "template", "pre", "set", "seq", "pad"}

\* lines 146-158: what generate_image makes of params before it posts them
RequestParams(params, session) ==
    LET p1 == DictSet(DictSet(params, "session_id", StrV(session)), "images", IntV(1))
        p2 == IF "imageformat" \notin DOMAIN p1
              THEN DictSet(p1, "imageformat", StrV(Chars("PNG"))) ELSE p1
        p3 == IF "save_on_server" \notin ParentParams
              THEN DictSet(p2, "donotsave", BoolV(TRUE)) ELSE p2
        p4 == [k \in DOMAIN p3 \ invalid_params |-> p3[k]]
        f1 == IF "loras" \in DOMAIN p4 THEN array2str(p4, "loras") ELSE p4
        f2 == IF "loraweights" \in DOMAIN f1 THEN array2str(f1, "loraweights") ELSE f1
        f3 == IF "loratencweights" \in DOMAIN f2 THEN array2str(f2, "loratencweights") ELSE f2
    IN  IF "lorasectionconfinement" \in DOMAIN f3
        THEN array2str(f3, "lorasectionconfinement") ELSE f3

-----------------------------------------------------------------------------
(* The client-side pipeline: process.apply                                 *)

\* An image is its size, its format attribute (the format of the file it was
\* opened from; "none" for an image made by crop, resize or filter) and the
\* changes made to the pixels it was opened with, in order.
Img(w, h, format) == [width |-> w, height |-> h, format |-> format, pix |-> <<>>]

\* the file apply writes, or none
NoFile == [written |-> FALSE, pix |-> <<>>, meta |-> <<>>, source |-> <<>>]

\* lines 322-343: the transforms, in the order apply tests for them
Stages_inserted(order) ==
    SelectSeq(order, LAMBDA k : k \in {"crop", "size", "sharp", "jpg", "save"})

Stages(order) == <<"crop", "size", "sharp", "jpg", "save">>

\* lines 322-323: Image.crop
DoCrop(image, box) ==
    [width |-> box[3] - box[1], height |-> box[4] - box[2], format |-> "none",
     pix |-> Append(image.pix, "crop")]

\* lines 324-328: Image.resize, when size < 100
DoSize(image, size) ==
    IF size < 100
    THEN [width |-> (image.width * size) \div 100, height |-> (image.height * size) \div 100,
          format |-> "none", pix |-> Append(image.pix, "resize")]
    ELSE image

\* lines 329-332: Image.filter
DoSharp(image) ==
    [image EXCEPT !.format = "none", !.pix = Append(image.pix, "unsharp")]

\* lines 334-336: the quality of the conversion
JpgQuality(v) == IF v.kind = "int" /\ v.n < 100 /\ v.n > 0 THEN v.n ELSE 85

\* lines 337-342: saved as JPEG in memory and opened again
DoJpg(image, v) ==
    [image EXCEPT !.format = "JPEG", !.pix = Append(image.pix, "jpeg")]

\* lines 351 and 361: click.FileError(...) builds an exception object and
\* drops it; nothing is raised and nothing is printed
FileErrorReport(name) == {}

\* lines 343-361: st is what apply holds when it reaches `if 'save' in op`
DoSave(op, st, savefails) ==
    LET image == st.image
        meta == IF "meta" \in DOMAIN op THEN op["meta"] ELSE <<>>
        source == IF "source" \in DOMAIN op THEN op["source"] ELSE <<>>
        file == [written |-> TRUE, pix |-> image.pix, meta |-> meta, source |-> source]
    IN  IF image.format = "JPEG"
        THEN \* image.save in a try block, then exiftool outside it
             IF savefails
             THEN [st EXCEPT !.failed = TRUE,
                             !.reported = FileErrorReport(op["save"]),
                             !.raised = IF "meta" \in DOMAIN op
                                        THEN "ExifToolExecuteError" ELSE "TypeError"]
             ELSE IF "meta" \notin DOMAIN op
             THEN [st EXCEPT !.file = [file EXCEPT !.meta = <<>>], !.raised = "TypeError",
                             !.failed = TRUE]
             ELSE [st EXCEPT !.file = file]
        ELSE \* png_meta.add_text outside the try block, then image.save in it
             IF "meta" \notin DOMAIN op
             THEN [st EXCEPT !.raised = "AttributeError", !.failed = TRUE]
             ELSE IF savefails
             THEN [st EXCEPT !.failed = TRUE, !.reported = FileErrorReport(op["save"])]
             ELSE [st EXCEPT !.file = file]

\* one `if k in op:` block of apply
DoStage(k, op, st, savefails) ==
    IF st.raised # "" \/ k \notin DOMAIN op THEN st
    ELSE LET s1 == [st EXCEPT !.log = Append(st.log, k)]
         IN  IF k = "crop" THEN [s1 EXCEPT !.image = DoCrop(st.image, op["crop"])]
             ELSE IF k = "size"
             THEN IF op["size"] < 100
                  THEN [s1 EXCEPT !.image = DoSize(st.image, op["size"])] ELSE st
             ELSE IF k = "sharp" THEN [s1 EXCEPT !.image = DoSharp(st.image)]
             ELSE IF k = "jpg" THEN [s1 EXCEPT !.image = DoJpg(st.image, op["jpg"]),
                                               !.quality = JpgQuality(op["jpg"])]
             ELSE DoSave(op, s1, savefails)

RECURSIVE DoStages(_, _, _, _)
DoStages(stages, op, st, savefails) ==
    IF stages = <<>> THEN st
    ELSE DoStages(Tail(stages), op, DoStage(Head(stages), op, st, savefails), savefails)

\* what apply holds before its first transform
Fetched(image) ==
    [image |-> image, log |-> <<>>, quality |-> 0, file |-> NoFile,
     raised |-> "", failed |-> FALSE, reported |-> {}]

\* lines 315-362: process(ops).apply(image), where writing the file fails
\* or not. The result holds the image returned, the transforms applied in
\* order, the file written, the exception that left apply ("": none),
\* whether the save failed and the filenames reported as failed.
apply(op, order, image, savefails) ==
    DoStages(Stages(order), op, Fetched(image), savefails)

\* the specs and images drawn as inputs of apply
OpKeys == <<"meta", "crop", "size", "sharp", "jpg", "source", "save">>

\* an ops dict is a function from its keys; `order` lists the keys as they
\* were inserted
OpValue(k, size, jpg) ==
    IF k = "meta" THEN Chars("{}")
    ELSE IF k = "crop" THEN <<1, 0, 3, 2>>
    ELSE IF k = "size" THEN size
    ELSE IF k = "sharp" THEN [r |-> Chars("0.65"), p |-> Chars("65"), t |-> Chars("5")]
    ELSE IF k = "jpg" THEN jpg
    ELSE IF k = "source" THEN Chars("m1.png")
    ELSE Chars("out.png")

Reverse(s) == [i \in 1..Len(s) |-> s[Len(s) + 1 - i]]

ProcIdle ==
    /\ p_pc = "idle" /\ p_op = EmptyDict /\ p_order = <<>>
    /\ p_image = Img(0, 0, "none") /\ p_savefails = FALSE
    /\ p_out = apply(EmptyDict, <<>>, Img(0, 0, "none"), FALSE)

ProcInit ==
    /\ p_pc = "call"
    /\ \E ks \in SUBSET {OpKeys[i] : i \in 1..Len(OpKeys)},
          size \in {50, 100}, jpg \in {BoolV(TRUE), IntV(50)} :
        /\ p_op = [k \in ks |-> OpValue(k, size, jpg)]
        /\ p_order \in {SelectSeq(OpKeys, LAMBDA k : k \in ks),
                        SelectSeq(Reverse(OpKeys), LAMBDA k : k \in ks)}
    /\ p_image \in {Img(4, 4, f) : f \in {"PNG", "JPEG", "none"}}
    /\ p_savefails \in BOOLEAN
    /\ p_out = apply(EmptyDict, <<>>, Img(0, 0, "none"), FALSE)

ProcApply ==
    /\ p_pc = "call"
    /\ p_out' = apply(p_op, p_order, p_image, p_savefails)
    /\ p_pc' = "done"
    /\ UNCHANGED <<p_op, p_order, p_image, p_savefails>>

-----------------------------------------------------------------------------
(* The gen command: the image fetched and post-processed                   *)

\* line 259: the image the service made for the request; it has the size and
\* the format asked for (1024 where the request names no size)
ServedImage(params) ==
    Img(IF "width" \in DOMAIN params /\ CanInt(params["width"])
        THEN ToInt(params["width"]) ELSE 1024,
        IF "height" \in DOMAIN params /\ CanInt(params["height"])
        THEN ToInt(params["height"]) ELSE 1024,
        IF params["imageformat"] = StrV(Chars("PNG")) THEN "PNG" ELSE "JPEG")

\* lines 603-605: the settings of the unsharp mask kept on the client; they
\* are bound only when unsharp_params holds a '/'
UnsharpSettings(unsharp_params) ==
    IF ~HasChar(unsharp_params, "/")
    THEN [raised |-> "", bound |-> FALSE, r |-> <<>>, p |-> <<>>, t |-> <<>>]
    ELSE IF Len(Split(unsharp_params, "/")) # 3
    THEN [raised |-> "ValueError", bound |-> FALSE, r |-> <<>>, p |-> <<>>, t |-> <<>>]
    ELSE [raised |-> "", bound |-> TRUE, r |-> Split(unsharp_params, "/")[1],
          p |-> Split(unsharp_params, "/")[2], t |-> Split(unsharp_params, "/")[3]]

\* line 273: self.um_r is read and was never bound
DownloadError(opt) ==
    IF opt.unsharp_mask /\ ~UnsharpSettings(opt.unsharp_params).bound
    THEN "AttributeError" ELSE ""

\* lines 261-276: the ops dict; hasmeta: the image carries 'parameters'
DownloadOps(opt, crop, outputfile, params, hasmeta) ==
    LET source == IF "personalnote" \in DOMAIN params THEN params["personalnote"]
                  ELSE StrV(<<>>)
        keys == (IF hasmeta THEN {"meta"} ELSE {})
                \cup (IF opt.jpeg_output THEN {"jpg"} ELSE {})
                \cup (IF crop # <<>> THEN {"crop"} ELSE {})
                \cup (IF opt.unsharp_mask THEN {"unsharp"} ELSE {})
                \cup {"save"}
                \cup (IF Truthy(source) THEN {"source"} ELSE {})
    IN  [k \in keys |->
            IF k = "meta" THEN Chars("{}")
            ELSE IF k = "jpg" THEN BoolV(opt.jpeg_output)
            ELSE IF k = "crop" THEN crop
            ELSE IF k = "unsharp"
            THEN [r |-> UnsharpSettings(opt.unsharp_params).r,
                  p |-> UnsharpSettings(opt.unsharp_params).p,
                  t |-> UnsharpSettings(opt.unsharp_params).t]
            ELSE IF k = "save" THEN outputfile
            ELSE source.s]

\* the order in which lines 263-276 insert the keys
DownloadOrder(op) ==
    SelectSeq(<<"meta", "jpg", "crop", "unsharp", "save", "source">>,
              LAMBDA k : k \in DOMAIN op)

-----------------------------------------------------------------------------
(* The gen command: the inputs drawn                                       *)

Prompt == [isfile |-> FALSE, name |-> Chars("a cat"), meta |-> EmptyDict]

File(name, meta) == [isfile |-> TRUE, name |-> Chars(name), meta |-> meta]

DefaultTemplate == <<"$pre", "-", "$set", "-", "$seq", ".", "$ext">>

\* the defaults of the options (lines 414-449 and 458-502); jpeg_quality is
\* <<>> when -J is not given (None) and <<n>> for -J n
BaseOpt ==
    [model |-> <<>>, loras |-> <<>>, lut_name |-> <<>>, rules |-> <<>>, params |-> <<>>,
     aspect |-> <<>>, sidelength |-> Chars("1024/64"), dry_run |-> FALSE,
     pre |-> Chars("genai"), set |-> Chars("img"), pad |-> 4, seq |-> 1,
     template |-> DefaultTemplate, jpeg_output |-> FALSE, jpeg_quality |-> <<>>,
     fix_resolution |-> FALSE, save_on_server |-> FALSE, unsharp_mask |-> FALSE,
     unsharp_params |-> Chars("0.65/65/5"), disk |-> {}]

\* runs that differ in their rules, their --params and the files' metadata
FileM1 ==
    File("m1.png", [prompt |-> StrV(Chars("a dog")), steps |-> IntV(20),
                    cfgscale |-> IntV(7), width |-> IntV(1000), height |-> IntV(600),
                    imageformat |-> StrV(Chars("PNG")), donotsave |-> BoolV(TRUE),
                    port |-> StrV(Chars("7801"))])

FileM2 ==
    File("m2.json", [prompt |-> StrV(Chars("a fox")), steps |-> IntV(30),
                     sigmashift |-> IntV(3)])

RuleNames == {"sdxl", "zit", "plain", "nosuch"}

Overrides ==
    {<<"steps", Chars("7")>>, <<"steps", UNSET>>, <<"cfgscale", Chars("2")>>,
     <<"width", Chars("100")>>, <<"host", Chars("h")>>}

MergeRuns ==
    {[BaseOpt EXCEPT !.rules = r, !.params = p] :
        r \in SeqsUpTo(RuleNames, MaxRules), p \in SeqsUpTo(Overrides, MaxOverrides)}
    \X {<<FileM1>>, <<Prompt>>, <<FileM1, Prompt>>, <<Prompt, FileM2>>}

\* runs that differ in their LoRA references and the files' LoRA lists
FileL0 == File("l0.png", [prompt |-> StrV(Chars("a dog"))])

FileL1 ==
    File("l1.png", [prompt |-> StrV(Chars("a dog")),
                    loras |-> ListV(<<Chars("zelda")>>),
                    loraweights |-> ListV(<<Chars("1")>>)])

FileL2 ==
    File("l2.png", [prompt |-> StrV(Chars("a dog")),
                    loras |-> ListV(<<Chars("zelda")>>),
                    loraweights |-> ListV(<<Chars("8")>>),
                    lorasectionconfinement |-> ListV(<<Chars("5")>>)])

FileL3 ==
    File("l3.png", [prompt |-> StrV(Chars("a dog")),
                    loras |-> ListV(<<Chars("gone"), Chars("link")>>),
                    loraweights |-> ListV(<<Chars("1"), Chars("5")>>),
                    lorasectionconfinement |-> ListV(<<Chars("0"), Chars("1")>>)])

\* metadata written by hand: a weight that names a section, no confinement list
FileL4 ==
    File("l4.json", [prompt |-> StrV(Chars("a dog")),
                     loras |-> ListV(<<Chars("Zoom")>>),
                     loraweights |-> ListV(<<Chars("1:base")>>)])

LoraRefs ==
    {Chars("zel"), Chars("zelda:8"), Chars("zelda:8:base"), Chars("LINK:5:refine"),
     Chars("link:x:foo"), Chars("z:1"), Chars("q"), Chars("zel:8:base:x"),
     Chars("gone:5:base")}

LoraRuns ==
    {[BaseOpt EXCEPT !.loras = l] : l \in SeqsUpTo(LoraRefs, MaxLoras)}
    \X {<<Prompt>>, <<FileL0>>, <<FileL1>>, <<FileL2>>, <<FileL3>>, <<FileL4>>,
        <<FileL1, Prompt>>, <<Prompt, FileL2>>}

\* runs that differ in their model and LUT references
ModelRefs == {<<>>, Chars("ZIT"), Chars("xl"), Chars("xlb"), Chars("q")}

LutRefs == {<<>>, Chars("arm"), Chars("ARM:5"), Chars("w"), Chars("q:5"), Chars("co:5:5")}

CatalogRuns ==
    {[BaseOpt EXCEPT !.model = m, !.lut_name = u, !.loras = l, !.dry_run = d] :
        m \in ModelRefs, u \in LutRefs, l \in {<<>>, <<Chars("zel")>>, <<Chars("q")>>},
        d \in BOOLEAN}
    \X {<<Prompt, Prompt>>, <<FileL1, Prompt>>}

\* runs that differ in the sizes asked for
DimValues == {0, 1, 63, 64, 65, 127, 128, 1000}

FileD(w, h) ==
    File("d.png", [prompt |-> StrV(Chars("a dog")), width |-> IntV(w), height |-> IntV(h)])

\* a JSON file that asks for the fix-up itself
FileDF(w, h) ==
    File("df.json", [prompt |-> StrV(Chars("a dog")), width |-> IntV(w), height |-> IntV(h),
                     fix_resolution |-> StrV(Chars("true"))])

SizeRuns ==
    {[BaseOpt EXCEPT !.rules = r, !.params = p] :
        r \in {<<>>, <<"zit">>, <<"zit", "x2">>},
        p \in {<<>>, <<<<"refinerupscale", Chars("1.5")>>>>}}
    \X ({<<FileD(w, h)>> : w \in DimValues, h \in DimValues}
        \cup {<<FileD(65, 64), FileD(64, 128)>>, <<FileDF(65, 127), FileD(65, 64)>>,
              <<FileDF(64, 64), FileDF(1000, 1000)>>})

AspectRuns ==
    {[BaseOpt EXCEPT !.aspect = a, !.sidelength = s, !.rules = r] :
        a \in {Chars("3:2"), Chars("1"), Chars("100x70"), Chars("128x64"), Chars("2:0")},
        s \in {Chars("6/2"), Chars("130/16"), <<>>, Chars("64"), Chars("6/x"),
               Chars("1024/64")},
        r \in {<<>>, <<"zit">>, <<"r512">>, <<"zit", "r512">>}}
    \X {<<Prompt>>, <<FileD(64, 65), Prompt>>}

\* runs that differ in the template and in the files already there
NameRuns ==
    {[BaseOpt EXCEPT !.template = t, !.disk = d, !.dry_run = n] :
        t \in {DefaultTemplate, <<"out", ".", "png">>, <<"$pre", "$seq">>,
               <<"$pre", "-", "${seq}", ".", "$ext">>, <<"out", "$seqx", ".", "png">>},
        d \in SUBSET {Chars("genai-img-0001.png"), Chars("genai-img-0002.png"),
                      Chars("out.png"), Chars("genai-0001.png"), Chars("out$seqx.png")},
        n \in BOOLEAN}
    \X {<<Prompt, Prompt>>}

\* runs that differ in the options of the output
OutputRuns ==
    {[BaseOpt EXCEPT !.jpeg_output = j, !.jpeg_quality = q, !.unsharp_mask = u,
                     !.unsharp_params = up, !.save_on_server = s, !.fix_resolution = f] :
        j \in BOOLEAN, q \in {<<>>, <<0>>, <<50>>, <<100>>}, u \in BOOLEAN,
        up \in {Chars("0.65/65/5"), Chars("2/150/3"), Chars("2"), Chars("2/150")},
        s \in BOOLEAN, f \in BOOLEAN}
    \X {<<Prompt>>, <<FileD(65, 64), Prompt>>}

GenRuns ==
    MergeRuns \cup LoraRuns \cup CatalogRuns \cup SizeRuns \cup AspectRuns \cup NameRuns
    \cup OutputRuns

-----------------------------------------------------------------------------
(* The gen command: its steps                                              *)

GenIdle ==
    /\ g_pc = "idle" /\ g_opt = BaseOpt /\ g_sources = <<>> /\ g_idx = 0
    /\ g_loras = <<>> /\ g_lut_name = <<>> /\ g_params = EmptyDict
    /\ g_merged = EmptyDict /\ g_size = <<>> /\ g_old = <<>> /\ g_crop = <<>>
    /\ g_seq = 0 /\ g_outname = <<>> /\ g_disk = {} /\ g_sent = <<>> /\ g_exit = -1

\* lines 522-534
GenInitOver(runs) ==
    /\ \E run \in runs :
        /\ g_opt = run[1]
        /\ g_sources = run[2]
    /\ g_pc = "item"
    /\ g_idx = 1
    /\ g_loras = g_opt.loras
    /\ g_lut_name = g_opt.lut_name
    /\ g_params = EmptyDict
    /\ g_merged = EmptyDict
    /\ g_size = <<>>
    /\ g_old = <<>>
    /\ g_crop = <<>>
    /\ g_seq = g_opt.seq
    /\ g_outname = <<>>
    /\ g_disk = g_opt.disk
    /\ g_sent = <<>>
    /\ g_exit = -1

GenInit == GenInitOver(GenRuns)

\* an exception leaves gen, or the step ends at place `next`
GenAfter(raised, next) ==
    IF raised = "" THEN g_pc' = next /\ g_exit' = g_exit
    ELSE g_pc' = "aborted" /\ g_exit' = ExitOf(raised)

\* lines 536-556
GenReadItem ==
    /\ g_pc = "item"
    /\ g_idx <= Len(g_sources)
    /\ g_params' = ApplyOverrides(ApplyRules(ItemParams(g_sources[g_idx]), g_opt.rules),
                                  g_opt.params)
    /\ g_merged' = g_params'
    /\ g_pc' = "merged"
    /\ UNCHANGED <<g_opt, g_sources, g_idx, g_loras, g_lut_name, g_size, g_old, g_crop,
                   g_seq, g_outname, g_disk, g_sent, g_exit>>

\* line 536, after the last item
GenFinish ==
    /\ g_pc = "item"
    /\ g_idx > Len(g_sources)
    /\ g_pc' = "done"
    /\ g_exit' = 0
    /\ UNCHANGED <<g_opt, g_sources, g_idx, g_loras, g_lut_name, g_params, g_merged,
                   g_size, g_old, g_crop, g_seq, g_outname, g_disk, g_sent>>

\* lines 557-561
GenModel ==
    /\ g_pc = "merged"
    /\ LET r == ModelStage(g_params, g_opt.model)
       IN  g_params' = r.params /\ GenAfter(r.raised, "model")
    /\ UNCHANGED <<g_opt, g_sources, g_idx, g_loras, g_lut_name, g_merged, g_size, g_old,
                   g_crop, g_seq, g_outname, g_disk, g_sent>>

\* lines 562-602
GenLoras ==
    /\ g_pc = "model"
    /\ LET r == LoraStage(g_params, g_loras)
       IN  g_params' = r.params /\ g_loras' = r.loras /\ GenAfter(r.raised, "loras")
    /\ UNCHANGED <<g_opt, g_sources, g_idx, g_lut_name, g_merged, g_size, g_old, g_crop,
                   g_seq, g_outname, g_disk, g_sent>>

\* lines 603-613
GenLut ==
    /\ g_pc = "loras"
    /\ IF UnsharpSettings(g_opt.unsharp_params).raised # ""
       THEN /\ GenAfter(UnsharpSettings(g_opt.unsharp_params).raised, "lut")
            /\ UNCHANGED <<g_params, g_lut_name>>
       ELSE LET r == LutStage(g_params, g_lut_name)
            IN  /\ g_params' = r.params
                /\ g_lut_name' = r.lut_name
                /\ GenAfter(r.raised, "lut")
    /\ UNCHANGED <<g_opt, g_sources, g_idx, g_loras, g_merged, g_size, g_old, g_crop,
                   g_seq, g_outname, g_disk, g_sent>>

\* lines 614-631
GenDims ==
    /\ g_pc = "lut"
    /\ IF g_opt.aspect = <<>>
       THEN g_pc' = "dims" /\ UNCHANGED <<g_params, g_size, g_exit>>
       ELSE LET d == DimLocals(g_params, g_opt.sidelength, g_size)
            IN  IF d.raised # ""
                THEN GenAfter(d.raised, "dims") /\ UNCHANGED <<g_params, g_size>>
                ELSE IF DimError(g_opt.aspect, d.size) # ""
                THEN /\ GenAfter(DimError(g_opt.aspect, d.size), "dims")
                     /\ g_size' = d.size
                     /\ UNCHANGED g_params
                ELSE \E wh \in get_aspect_pixels(g_opt.aspect, d.size[1], ToInt(d.size[2])) :
                        /\ g_params' = DictSet(DictSet(g_params, "width", IntV(wh[1])),
                                               "height", IntV(wh[2]))
                        /\ g_size' = d.size
                        /\ GenAfter("", "dims")
    /\ UNCHANGED <<g_opt, g_sources, g_idx, g_loras, g_lut_name, g_merged, g_old, g_crop,
                   g_seq, g_outname, g_disk, g_sent>>

\* lines 632-652
GenFix ==
    /\ g_pc = "dims"
    /\ LET r == FixStage(g_params, g_old)
       IN  /\ g_params' = r.params
           /\ g_crop' = r.crop
           /\ g_old' = r.old
           /\ GenAfter(r.raised, "fixed")
    /\ UNCHANGED <<g_opt, g_sources, g_idx, g_loras, g_lut_name, g_merged, g_size, g_seq,
                   g_outname, g_disk, g_sent>>

\* lines 653-659
GenName ==
    /\ g_pc = "fixed"
    /\ g_outname' = NameFor(g_opt, g_seq)
    /\ g_pc' = "naming"
    /\ UNCHANGED <<g_opt, g_sources, g_idx, g_loras, g_lut_name, g_params, g_merged,
                   g_size, g_old, g_crop, g_seq, g_disk, g_sent, g_exit>>

\* lines 660-667: one pass of the loop. The counter is held once it is at
\* MaxSeq: with the files drawn here only a name that does not depend on seq
\* still exists then, and the loop goes round with the same name.
GenNameRetry ==
    /\ g_pc = "naming"
    /\ g_outname \in g_disk
    /\ NamesSeq(g_opt.template)
    /\ g_seq' = IF g_seq < MaxSeq THEN g_seq + 1 ELSE g_seq
    /\ g_outname' = NameFor(g_opt, g_seq')
    /\ UNCHANGED <<g_pc, g_opt, g_sources, g_idx, g_loras, g_lut_name, g_params, g_merged,
                   g_size, g_old, g_crop, g_disk, g_sent, g_exit>>

\* lines 660-663: the loop ends
GenNameDone ==
    /\ g_pc = "naming"
    /\ g_outname \notin g_disk \/ ~NamesSeq(g_opt.template)
    /\ g_pc' = "named"
    /\ UNCHANGED <<g_opt, g_sources, g_idx, g_loras, g_lut_name, g_params, g_merged,
                   g_size, g_old, g_crop, g_seq, g_outname, g_disk, g_sent, g_exit>>

\* the counter left as it is after an item
NextSeq_same(seq) == seq

\* line 675
NextSeq(seq) == seq + 1

\* lines 668-671 and 675
GenDryRun ==
    /\ g_pc = "named"
    /\ g_opt.dry_run
    /\ g_seq' = NextSeq(g_seq)
    /\ g_idx' = g_idx + 1
    /\ g_pc' = "item"
    /\ UNCHANGED <<g_opt, g_sources, g_loras, g_lut_name, g_params, g_merged, g_size,
                   g_old, g_crop, g_outname, g_disk, g_sent, g_exit>>

\* lines 672-675, with generate_image (lines 144-167), _download_image
\* (lines 248-277) and process.apply: the request is posted, the image
\* fetched, post-processed and saved. The image carries its metadata or not,
\* and writing the file fails or not.
GenGenerate ==
    /\ g_pc = "named"
    /\ ~g_opt.dry_run
    /\ g_params' = RequestParams(g_params, Chars("sid"))
    /\ \E hasmeta \in BOOLEAN, savefails \in BOOLEAN :
        LET op == DownloadOps(g_opt, g_crop, g_outname, g_params', hasmeta)
            out == IF DownloadError(g_opt) # ""
                   THEN [Fetched(ServedImage(g_params')) EXCEPT
                            !.raised = DownloadError(g_opt)]
                   ELSE apply(op, DownloadOrder(op), ServedImage(g_params'), savefails)
        IN  /\ g_sent' = Append(g_sent, [item |-> g_idx, params |-> g_params',
                                         outfile |-> g_outname, crop |-> g_crop,
                                         op |-> op, out |-> out])
            /\ g_disk' = IF out.file.written THEN g_disk \cup {g_outname} ELSE g_disk
            /\ IF out.raised = ""
               THEN /\ g_seq' = NextSeq(g_seq)
                    /\ g_idx' = g_idx + 1
                    /\ g_pc' = "item"
                    /\ g_exit' = g_exit
               ELSE /\ g_pc' = "aborted"
                    /\ g_exit' = ExitOf(out.raised)
                    /\ UNCHANGED <<g_seq, g_idx>>
    /\ UNCHANGED <<g_opt, g_sources, g_loras, g_lut_name, g_merged, g_size, g_old, g_crop,
                   g_outname>>

-----------------------------------------------------------------------------
(* The list fields of a request: _array2str and _str2array                 *)

\* lines 407-410
str2array(d, k) == IF d[k].kind = "str" THEN DictSet(d, k, ListV(Split(d[k].s, ","))) ELSE d

\* the strings drawn as the elements of a list: names, weights, the empty
\* string and a name that holds a comma
ArrayItems ==
    {Chars("zelda"), Chars("Zoom"), Chars("1"), Chars("0.8"), Chars("a,b"), <<>>}

ArrayIdle == r_pc = "idle" /\ r_in = ListV(<<>>) /\ r_out = ListV(<<>>)

ArrayInit ==
    /\ r_pc = "call"
    /\ r_in \in {ListV(l) : l \in SeqsUpTo(ArrayItems, MaxList)}
    /\ r_out = ListV(<<>>)

\* _array2str(d, k) and then _str2array(d, k), on a dict that holds the value
ArrayRoundTrip ==
    /\ r_pc = "call"
    /\ r_out' = str2array(array2str([loras |-> r_in], "loras"), "loras")["loras"]
    /\ r_pc' = "done"
    /\ UNCHANGED r_in

-----------------------------------------------------------------------------
(* The budget-correction loop, entered with any width and height           *)

\* lines 920-924 of sui.py and 40-44 of aspect.py: the loop entered with a
\* width and a height that are multiples of rounding
ShrinkInit ==
    /\ a_pc = "loop"
    /\ a_ratio = <<>>
    /\ a_side \in 1..MaxSide
    /\ a_rounding \in 1..MaxRounding
    /\ a_width \in {k * a_rounding : k \in 0..MaxStart}
    /\ a_height \in {k * a_rounding : k \in 0..MaxStart}
    /\ a_start = <<a_width, a_height>>
    /\ a_iter = 0

-----------------------------------------------------------------------------
(* The wallpaper rotator (waifupaper.py)                                   *)

\* the directories named on the command lines drawn, and the numbers of
\* managed displays
WDirs == {"A", "B"}
DirArgs == {<<"A">>, <<"A", "B">>}
DisplayCounts == {1, 2}

\* the image files a directory can hold: i stands for the file i.png
WFileNames == 1..MaxFiles

Range(s) == {s[i] : i \in DOMAIN s}

\* lines 20-32: the modification time and the number of image files
get_directory_state(fs, directory) ==
    <<fs[directory].mtime, Cardinality(fs[directory].files)>>

\* list.sort()
RECURSIVE Sorted(_)
Sorted(S) ==
    IF S = {} THEN <<>>
    ELSE LET m == CHOOSE x \in S : \A y \in S : x <= y
         IN  <<m>> \o Sorted(S \ {m})

\* random.shuffle: every order of the files
Orders(S) == {s \in [1..Cardinality(S) -> S] : \A i, j \in DOMAIN s : s[i] = s[j] => i = j}

\* lines 222-225 and 257-260: the list get_image_files returned, sorted or
\* shuffled
Arranged(S, sort) == IF sort THEN {Sorted(S)} ELSE Orders(S)

\* lines 214-215: the directory of the k-th managed display
DirFor(k, directories) ==
    directories[(IF k - 1 < Len(directories) - 1 THEN k - 1 ELSE Len(directories) - 1) + 1]

\* lines 245-268: the loop over display_images that reloads the lists; every
\* outcome the shuffles allow. get_image_files leaves the program when the
\* directory holds no image (lines 52-54).
RECURSIVE CheckLoop(_, _, _, _, _)
CheckLoop(disp, seen, i, fs, sort) ==
    IF i > Len(disp) THEN {[disp |-> disp, seen |-> seen, exited |-> FALSE]}
    ELSE LET directory == disp[i].directory
             current_state == get_directory_state(fs, directory)
         IN  IF current_state = seen[directory]
             THEN CheckLoop(disp, seen, i + 1, fs, sort)
             ELSE IF fs[directory].files = {}
             THEN {[disp |-> disp, seen |-> seen, exited |-> TRUE]}
             ELSE UNION {CheckLoop([disp EXCEPT ![i].images = new_images, ![i].index = 0],
                                   [seen EXCEPT ![directory] = current_state],
                                   i + 1, fs, sort) :
                            new_images \in Arranged(fs[directory].files, sort)}

\* lines 271-290: the loop over display_images that sets the wallpapers;
\* index counts from 0
RECURSIVE RotateLoop(_, _, _, _)
RotateLoop(disp, i, sort, iteration) ==
    IF i > Len(disp) THEN {disp}
    ELSE LET images == disp[i].images
             current_index == disp[i].index
             next == (current_index + 1) % Len(images)
             d1 == [disp EXCEPT ![i].shown = images[current_index + 1], ![i].index = next]
         IN  IF next = 0 /\ ~sort /\ iteration > 0
             THEN UNION {RotateLoop([d1 EXCEPT ![i].images = shuffled], i + 1, sort,
                                    iteration) :
                            shuffled \in Orders(Range(images))}
             ELSE RotateLoop(d1, i + 1, sort, iteration)

PaperIdle ==
    /\ w_pc = "idle" /\ w_sort = FALSE
    /\ w_fs = [d \in WDirs |-> [mtime |-> 0, files |-> {}]]
    /\ w_seen = <<>> /\ w_disp = <<>> /\ w_iter = 0

\* lines 160-232: the displays set up, each with the list of its directory;
\* a directory a display uses holds an image
PaperInit ==
    /\ w_pc = "check"
    /\ w_sort \in BOOLEAN
    /\ w_fs \in [WDirs -> [mtime : {0}, files : SUBSET WFileNames]]
    /\ \E nd \in DisplayCounts, directories \in DirArgs :
        /\ \A k \in 1..nd : w_fs[DirFor(k, directories)].files # {}
        /\ w_disp \in
            {[k \in 1..nd |-> [images |-> ims[k], index |-> 0,
                               directory |-> DirFor(k, directories),
                               display_index |-> k - 1, shown |-> 0]] :
                ims \in {f \in [1..nd -> UNION {Orders(T) : T \in SUBSET WFileNames}] :
                            \A k \in 1..nd :
                                f[k] \in Arranged(w_fs[DirFor(k, directories)].files,
                                                  w_sort)}}
        /\ w_seen = [d \in {DirFor(k, directories) : k \in 1..nd} |->
                        get_directory_state(w_fs, d)]
    /\ w_iter = 0

\* lines 245-268
PaperCheck ==
    /\ w_pc = "check"
    /\ \E r \in CheckLoop(w_disp, w_seen, 1, w_fs, w_sort) :
        /\ w_disp' = r.disp
        /\ w_seen' = r.seen
        /\ w_pc' = IF r.exited THEN "exited" ELSE "rotate"
    /\ UNCHANGED <<w_sort, w_fs, w_iter>>

\* lines 270-295: the wallpapers set, then the sleep; of `iteration` only
\* whether it is above 0 is ever read, so the count stops at 1
PaperRotate ==
    /\ w_pc = "rotate"
    /\ w_disp' \in RotateLoop(w_disp, 1, w_sort, w_iter)
    /\ w_iter' = 1
    /\ w_pc' = "check"
    /\ UNCHANGED <<w_sort, w_fs, w_seen>>

\* while the rotator sleeps, the files of a directory change, and with them
\* its modification time
PaperDirChange ==
    /\ w_pc = "check"
    /\ \E d \in WDirs, S \in SUBSET WFileNames :
        /\ S # w_fs[d].files
        /\ w_fs[d].mtime < MaxMtime
        /\ w_fs' = [w_fs EXCEPT ![d] = [mtime |-> w_fs[d].mtime + 1, files |-> S]]
    /\ UNCHANGED <<w_pc, w_sort, w_seen, w_disp, w_iter>>

-----------------------------------------------------------------------------
(* Specifications *)

InitAspect ==
    /\ AspectInit /\ MergeIdle /\ MatchIdle /\ GenIdle /\ ProcIdle
    /\ ArrayIdle /\ PaperIdle

NextAspect ==
    \/ AspectExplicit /\ UNCHANGED <<m_vars, sm_vars, g_vars, p_vars, r_vars, w_vars>>
    \/ AspectSnap /\ UNCHANGED <<m_vars, sm_vars, g_vars, p_vars, r_vars, w_vars>>
    \/ AspectShrink /\ UNCHANGED <<m_vars, sm_vars, g_vars, p_vars, r_vars, w_vars>>
    \/ AspectReturn /\ UNCHANGED <<m_vars, sm_vars, g_vars, p_vars, r_vars, w_vars>>

SpecAspect == InitAspect /\ [][NextAspect]_vars

InitMerge ==
    /\ MergeInit /\ AspectIdle /\ MatchIdle /\ GenIdle /\ ProcIdle
    /\ ArrayIdle /\ PaperIdle

NextMerge == MergeCall /\ UNCHANGED <<a_vars, sm_vars, g_vars, p_vars, r_vars, w_vars>>

SpecMerge == InitMerge /\ [][NextMerge]_vars

InitMatch ==
    /\ MatchInit /\ AspectIdle /\ MergeIdle /\ GenIdle /\ ProcIdle
    /\ ArrayIdle /\ PaperIdle

NextMatch == MatchCall /\ UNCHANGED <<a_vars, m_vars, g_vars, p_vars, r_vars, w_vars>>

SpecMatch == InitMatch /\ [][NextMatch]_vars

InitProcess ==
    /\ ProcInit /\ AspectIdle /\ MergeIdle /\ MatchIdle /\ GenIdle
    /\ ArrayIdle /\ PaperIdle

NextProcess == ProcApply /\ UNCHANGED <<a_vars, m_vars, sm_vars, g_vars, r_vars, w_vars>>

SpecProcess == InitProcess /\ [][NextProcess]_vars

Init ==
    /\ GenInit /\ AspectIdle /\ MergeIdle /\ MatchIdle /\ ProcIdle
    /\ ArrayIdle /\ PaperIdle

Next ==
    \/ GenReadItem /\ UNCHANGED <<a_vars, m_vars, sm_vars, p_vars, r_vars, w_vars>>
    \/ GenFinish /\ UNCHANGED <<a_vars, m_vars, sm_vars, p_vars, r_vars, w_vars>>
    \/ GenModel /\ UNCHANGED <<a_vars, m_vars, sm_vars, p_vars, r_vars, w_vars>>
    \/ GenLoras /\ UNCHANGED <<a_vars, m_vars, sm_vars, p_vars, r_vars, w_vars>>
    \/ GenLut /\ UNCHANGED <<a_vars, m_vars, sm_vars, p_vars, r_vars, w_vars>>
    \/ GenDims /\ UNCHANGED <<a_vars, m_vars, sm_vars, p_vars, r_vars, w_vars>>
    \/ GenFix /\ UNCHANGED <<a_vars, m_vars, sm_vars, p_vars, r_vars, w_vars>>
    \/ GenName /\ UNCHANGED <<a_vars, m_vars, sm_vars, p_vars, r_vars, w_vars>>
    \/ GenNameRetry /\ UNCHANGED <<a_vars, m_vars, sm_vars, p_vars, r_vars, w_vars>>
    \/ GenNameDone /\ UNCHANGED <<a_vars, m_vars, sm_vars, p_vars, r_vars, w_vars>>
    \/ GenDryRun /\ UNCHANGED <<a_vars, m_vars, sm_vars, p_vars, r_vars, w_vars>>
    \/ GenGenerate /\ UNCHANGED <<a_vars, m_vars, sm_vars, p_vars, r_vars, w_vars>>

Spec == Init /\ [][Next]_vars

\* gen on the runs that differ in their names, running on: a statement that
\* can run does run
InitLive ==
    /\ GenInitOver(NameRuns) /\ AspectIdle /\ MergeIdle /\ MatchIdle /\ ProcIdle
    /\ ArrayIdle /\ PaperIdle

SpecLive == InitLive /\ [][Next]_vars /\ WF_vars(Next)

InitArray ==
    /\ ArrayInit /\ AspectIdle /\ MergeIdle /\ MatchIdle /\ GenIdle /\ ProcIdle
    /\ PaperIdle

NextArray ==
    ArrayRoundTrip /\ UNCHANGED <<a_vars, m_vars, sm_vars, g_vars, p_vars, w_vars>>

SpecArray == InitArray /\ [][NextArray]_vars

\* the budget loop from any start; a loop that can make a pass makes it
InitShrink ==
    /\ ShrinkInit /\ MergeIdle /\ MatchIdle /\ GenIdle /\ ProcIdle
    /\ ArrayIdle /\ PaperIdle

NextShrink ==
    \/ AspectShrink /\ UNCHANGED <<m_vars, sm_vars, g_vars, p_vars, r_vars, w_vars>>
    \/ AspectReturn /\ UNCHANGED <<m_vars, sm_vars, g_vars, p_vars, r_vars, w_vars>>

SpecShrink == InitShrink /\ [][NextShrink]_vars /\ WF_vars(NextShrink)

InitPaper ==
    /\ PaperInit /\ AspectIdle /\ MergeIdle /\ MatchIdle /\ GenIdle /\ ProcIdle
    /\ ArrayIdle

NextPaper ==
    \/ PaperCheck /\ UNCHANGED <<a_vars, m_vars, sm_vars, g_vars, p_vars, r_vars>>
    \/ PaperRotate /\ UNCHANGED <<a_vars, m_vars, sm_vars, g_vars, p_vars, r_vars>>
    \/ PaperDirChange /\ UNCHANGED <<a_vars, m_vars, sm_vars, g_vars, p_vars, r_vars>>

SpecPaper == InitPaper /\ [][NextPaper]_vars

-----------------------------------------------------------------------------
(* C1: for positive side and rounding and a positive ratio aspectW:aspectH *)
(* (or no ratio, which is 1:1), the width and height get_aspect_pixels     *)
(* returns are non-negative multiples of rounding and their product is at  *)
(* most side*side.                                                         *)
C1_AspectWithinBudget ==
    (a_pc = "done" /\ ~HasChar(a_ratio, "x")) =>
        /\ a_width >= 0 /\ a_height >= 0
        /\ a_width % a_rounding = 0
        /\ a_height % a_rounding = 0
        /\ a_width * a_height <= a_side * a_side

\* a ratio was resolved after the loop had to shrink a dimension
C1_Witness ==
    /\ a_pc = "done" /\ ~HasChar(a_ratio, "x")
    /\ a_rounding > 1
    /\ a_width > 0 /\ a_height > 0
    /\ (a_width + a_rounding) * a_height > a_side * a_side
    /\ a_width # a_height

-----------------------------------------------------------------------------
(* What the claims speak of *)

\* name x holds query q somewhere, letters compared without regard to case
SameLetter(c, d) ==
    c = d \/ \E i \in 1..26 : {c, d} = {Upper[i], Lower[i]}

HoldsNoCase(x, q) ==
    \E off \in 0..(Len(x) - Len(q)) : \A j \in 1..Len(q) : SameLetter(x[off + j], q[j])

Holders(q, names) == {i \in 1..Len(names) : HoldsNoCase(names[i], q)}

MaxOf(S) == CHOOSE i \in S : \A j \in S : j <= i

\* the places of the loop body from which a step has been passed
AfterMerge == {"merged", "model", "loras", "lut", "dims", "fixed", "naming", "named"}
AfterModel == AfterMerge \ {"merged"}
AfterLoras == AfterModel \ {"model"}
AfterLut == AfterLoras \ {"loras"}
AfterFix == {"fixed", "naming", "named"}

\* the request of the item just finished, when there is one
JustSent == g_pc = "item" /\ g_sent # <<>> /\ g_sent[Len(g_sent)].item = g_idx - 1

-----------------------------------------------------------------------------
(* C2: merge_params lets the last set that holds a key decide it: a value  *)
(* other than "unset" is the result's value; "unset", when the key was in  *)
(* the accumulator, leaves the key out of the result. And                  *)
(* merge([{a:1,b:2},{b:"unset"},{c:3}]) = {a:1,c:3}.                       *)
C2_Example ==
    <<[a |-> IntV(1), b |-> IntV(2)], [b |-> StrV(UNSET)], [c |-> IntV(3)]>>

C2_LastSetDecides ==
    m_pc = "done" =>
        /\ \A k \in {"a", "b", "c"} :
            LET with == {i \in 1..Len(m_sets) : k \in DOMAIN m_sets[i]}
            IN  with # {} =>
                  LET v == m_sets[MaxOf(with)][k]
                      before == merge_params(SubSeq(m_sets, 1, MaxOf(with) - 1))
                  IN  /\ ~IsUnset(v) => (k \in DOMAIN m_out /\ m_out[k] = v)
                      /\ (IsUnset(v) /\ k \in DOMAIN before) => k \notin DOMAIN m_out
        /\ m_sets = C2_Example => m_out = [a |-> IntV(1), c |-> IntV(3)]

\* the example of the claim has been merged
C2_Witness ==
    m_pc = "done" /\ m_sets = C2_Example /\ DOMAIN m_out = {"a", "c"}

(* C3: after an item's parameters are merged from its sources, no key of   *)
(* the parameter set maps to "unset".                                      *)
C3_NoUnsetAfterMerge ==
    g_pc \in AfterMerge => \A k \in DOMAIN g_params : ~IsUnset(g_params[k])

(* C4: at the end of the merge of an item, a key given by --params has the *)
(* value of its last k=v; otherwise a key given by a rule has the value of *)
(* the last rule named that holds it (no value when that is "unset"),      *)
(* whatever the file's metadata says.                                      *)
C4_Precedence ==
    g_pc = "merged" =>
        \A k \in {"steps", "cfgscale", "width", "sigmashift", "fix_resolution", "model",
                  "sidelength", "rounding", "sampler", "scheduler"} :
            LET given == {i \in 1..Len(g_opt.params) : g_opt.params[i][1] = k}
                ruled == {i \in 1..Len(g_opt.rules) :
                            /\ g_opt.rules[i] \in DOMAIN Config
                            /\ k \in DOMAIN Config[g_opt.rules[i]]}
            IN  IF given # {}
                THEN /\ k \in DOMAIN g_params
                     /\ g_params[k] = StrV(g_opt.params[MaxOf(given)][2])
                ELSE ruled # {} =>
                        LET v == Config[g_opt.rules[MaxOf(ruled)]][k]
                        IN  IF IsUnset(v)
                            THEN k \in DOMAIN g_params => IsUnset(g_params[k])
                            ELSE k \in DOMAIN g_params /\ g_params[k] = v

\* a file's steps and cfgscale met two rules and an override of steps
C4_Witness ==
    /\ g_pc = "merged"
    /\ g_sources[g_idx] = FileM1
    /\ g_opt.rules = <<"sdxl", "zit">>
    /\ g_opt.params = <<<<"steps", Chars("7")>>>>
    /\ g_params["steps"] = StrV(Chars("7"))
    /\ g_params["cfgscale"] = StrV(Chars("1.0"))

C7_ParallelLoraLists ==
    (g_pc = "loras" /\ "loras" \in DOMAIN g_params) =>
        /\ "loraweights" \in DOMAIN g_params
        /\ Len(g_params["loraweights"].l) = Len(g_params["loras"].l)
        /\ "lorasectionconfinement" \in DOMAIN g_params =>
                Len(g_params["lorasectionconfinement"].l) = Len(g_params["loras"].l)

\* a reference of the shape name:weight:section
HasSection(ref) == Len(Split(ref, ":")) >= 3

\* the item came with no confinement list and no weight that names a section
NoSectionBefore ==
    /\ "lorasectionconfinement" \notin DOMAIN g_merged
    /\ "loraweights" \in DOMAIN g_merged =>
            \A i \in 1..Len(g_merged["loraweights"].l) :
                ~HasChar(g_merged["loraweights"].l[i], ":")

(* C8, as amended: for an item that came with no lorasectionconfinement    *)
(* (and no stored weight naming a section), gen adds the key exactly when  *)
(* one of the references it resolves for the item, those it looks up and   *)
(* appends to the item's loras (g_loras after line 572), names a section;  *)
(* otherwise the key is absent from what is sent.                          *)
C8_ConfinementIffResolvedSection ==
    /\ (g_pc = "loras" /\ NoSectionBefore) =>
            ("lorasectionconfinement" \in DOMAIN g_params
                <=> \E i \in 1..Len(g_loras) : HasSection(g_loras[i]))
    /\ (JustSent /\ NoSectionBefore) =>
            ("lorasectionconfinement" \in DOMAIN g_sent[Len(g_sent)].params
                <=> \E i \in 1..Len(g_loras) : HasSection(g_loras[i]))

(* C8, as claimed: ... exactly when one of the item's LoRA references, as  *)
(* given on the command line, names a section.                             *)
C8_ConfinementIffAnySection ==
    (g_pc = "loras" /\ NoSectionBefore) =>
        ("lorasectionconfinement" \in DOMAIN g_params
            <=> \E i \in 1..Len(g_opt.loras) : HasSection(g_opt.loras[i]))

\* a file with a LoRA and no confinement got one from a reference with a section
C8_Witness ==
    /\ g_pc = "loras"
    /\ NoSectionBefore
    /\ "loras" \in DOMAIN g_merged
    /\ Len(g_loras) = 2
    /\ ~HasSection(g_loras[1]) /\ HasSection(g_loras[2])
    /\ g_params["lorasectionconfinement"].l = <<Chars("0"), Chars("0"), Chars("1")>>

\* digits, or digits '.' digits
IsNumber(s) ==
    \/ IsNumeric(s)
    \/ Len(Split(s, ".")) = 2 /\ IsNumeric(Split(s, ".")[1]) /\ IsNumeric(Split(s, ".")[2])

(* C9: gen encodes a LoRA reference only if its weight is a number and its *)
(* section is base or refine: base is code 5, refine 1, no section 0; any  *)
(* other reference is rejected.                                            *)
C9_SuffixesValidated ==
    g_pc = "loras" =>
        \A i \in 1..Len(g_loras) :
            LET parts == Split(g_loras[i], ":")
                codes == IF "lorasectionconfinement" \in DOMAIN g_params
                         THEN g_params["lorasectionconfinement"].l ELSE <<>>
                at == Len(codes) - Len(g_loras) + i
            IN  /\ Len(parts) >= 2 => IsNumber(parts[2])
                /\ Len(parts) >= 3 =>
                        /\ Len(parts) = 3
                        /\ parts[3] \in {Chars("base"), Chars("refine")}
                /\ (Len(codes) = Len(g_params["loras"].l) /\ at >= 1) =>
                        codes[at] = IF Len(parts) < 3 THEN Chars("0")
                                    ELSE IF parts[3] = Chars("base") THEN Chars("5")
                                    ELSE Chars("1")

\* v rounded up to a multiple of 64: the smallest one that is at least v
IsRoundedUp(new, v) == new % 64 = 0 /\ new >= v /\ new - v < 64

(* C10: when the resolution fix-up applies, width and height each become   *)
(* the smallest multiple of 64 that is at least the value asked for; a     *)
(* value that is a multiple of 64 stays, and the request carries these     *)
(* values.                                                                 *)
C10_RoundedUpTo64 ==
    /\ (g_pc \in AfterFix /\ "fix_resolution" \in DOMAIN g_merged) =>
            /\ IsRoundedUp(ToInt(g_params["width"]), g_old[1])
            /\ IsRoundedUp(ToInt(g_params["height"]), g_old[2])
            /\ g_old[1] % 64 = 0 => ToInt(g_params["width"]) = g_old[1]
            /\ g_old[2] % 64 = 0 => ToInt(g_params["height"]) = g_old[2]
    /\ (JustSent /\ "fix_resolution" \in DOMAIN g_merged) =>
            /\ IsRoundedUp(ToInt(g_sent[Len(g_sent)].params["width"]), g_old[1])
            /\ IsRoundedUp(ToInt(g_sent[Len(g_sent)].params["height"]), g_old[2])

\* a request went out with the width raised and the height, a multiple of
\* 64, as it was
C10_Witness ==
    /\ JustSent
    /\ "fix_resolution" \in DOMAIN g_merged
    /\ g_old = <<65, 128>>
    /\ g_sent[Len(g_sent)].params["width"] = IntV(128)
    /\ g_sent[Len(g_sent)].params["height"] = IntV(128)

\* the operations of a spec that change the image or write it, in the order
\* crop, size, sharp, jpg, save; size changes nothing at 100 or more
FixedOrder == <<"crop", "size", "sharp", "jpg", "save">>

Effective(op) ==
    SelectSeq(FixedOrder, LAMBDA k : k \in DOMAIN op /\ (k = "size" => op["size"] < 100))

\* what each transform leaves in the pixels
PixOf(k) ==
    IF k = "crop" THEN "crop" ELSE IF k = "size" THEN "resize"
    ELSE IF k = "sharp" THEN "unsharp" ELSE "jpeg"

(* C13: process.apply applies the operations of its spec in the order      *)
(* crop, size, sharp, jpg, save, whatever order the keys were inserted in, *)
(* and without save the result does not depend on meta and source.         *)
C13_FixedOrder ==
    p_pc = "done" =>
        /\ p_out.log = Effective(p_op)
        /\ p_out.image.pix =
            [i \in 1..Len(SelectSeq(p_out.log, LAMBDA k : k # "save")) |->
                PixOf(SelectSeq(p_out.log, LAMBDA k : k # "save")[i])]
        /\ "save" \notin DOMAIN p_op =>
            /\ p_out.raised = "" /\ ~p_out.file.written
            /\ p_out = apply([k \in DOMAIN p_op \ {"meta", "source"} |-> p_op[k]],
                             p_order, p_image, p_savefails)

\* all seven keys, inserted in the reverse of the order they are applied in
C13_Witness ==
    /\ p_pc = "done"
    /\ p_order = Reverse(OpKeys)
    /\ p_out.log = FixedOrder
    /\ p_out.file.written
    /\ p_out.file.pix = <<"crop", "resize", "unsharp", "jpeg">>

(* C20: process.apply with a spec that holds save alone ends without an    *)
(* error, writes a file with the pixels of the input, and returns the      *)
(* input image unchanged.                                                  *)
C20_SaveOnlyIsCopy ==
    (p_pc = "done" /\ DOMAIN p_op = {"save"} /\ ~p_savefails) =>
        /\ p_out.raised = ""
        /\ p_out.file.written
        /\ p_out.file.pix = <<>>
        /\ p_out.image = p_image

\* the fix-up ran for the item and made a dimension larger
FixGrew ==
    /\ "fix_resolution" \in DOMAIN g_merged
    /\ g_old # <<>>
    /\ g_old[1] % 64 # 0 \/ g_old[2] % 64 # 0

(* C11: when the fix-up grows a dimension and no refiner upscale is set,   *)
(* the crop box is (dw, dh, oldW+dw, oldH+dh) with dw, dh the halves of    *)
(* the padding rounded down: it has the size asked for, lies inside the    *)
(* rounded canvas and leaves the smaller half of an odd padding on the     *)
(* left and on top; 1000x1000 gives a 1024x1024 canvas and a 1000x1000 box.*)
C11_CenteredCropBox ==
    (g_pc \in AfterFix /\ FixGrew /\ "refinerupscale" \notin DOMAIN g_merged) =>
        LET new_w == ToInt(g_params["width"])
            new_h == ToInt(g_params["height"])
            dw == (new_w - g_old[1]) \div 2
            dh == (new_h - g_old[2]) \div 2
        IN  /\ g_crop = <<dw, dh, g_old[1] + dw, g_old[2] + dh>>
            /\ g_crop[3] - g_crop[1] = g_old[1] /\ g_crop[4] - g_crop[2] = g_old[2]
            /\ 0 <= g_crop[1] /\ g_crop[3] <= new_w
            /\ 0 <= g_crop[2] /\ g_crop[4] <= new_h
            /\ new_w - g_crop[3] - g_crop[1] \in {0, 1}
            /\ new_h - g_crop[4] - g_crop[2] \in {0, 1}
            /\ g_old = <<1000, 1000>> =>
                    new_w = 1024 /\ new_h = 1024 /\ g_crop = <<12, 12, 1012, 1012>>

\* an odd padding on one axis, none on the other
C11_Witness ==
    /\ g_pc = "fixed"
    /\ "refinerupscale" \notin DOMAIN g_merged
    /\ "fix_resolution" \in DOMAIN g_merged
    /\ g_old = <<127, 1000>>
    /\ g_crop = <<0, 12, 127, 1012>>

\* the crop of a request is that of its item; `last` is the request just sent
CropOf(r) == IF "crop" \in DOMAIN r.op THEN r.op["crop"] ELSE <<>>

(* C12: the crop applied to an item's image is the crop box computed for   *)
(* that item: with no fix_resolution among its parameters, or with no      *)
(* dimension grown, the image is not cropped, whatever was done to the     *)
(* items before it; otherwise it is cropped to the item's box.             *)
C12_CropIsTheItems ==
    JustSent =>
        LET last == g_sent[Len(g_sent)]
        IN  /\ ~FixGrew =>
                /\ CropOf(last) = <<>>
                /\ ~InList("crop", last.out.log)
                /\ last.out.image.width = ServedImage(last.params).width
            /\ FixGrew =>
                /\ CropOf(last) = g_crop /\ g_crop # <<>>
                /\ InList("crop", last.out.log)
                /\ last.out.image.width = g_crop[3] - g_crop[1]
                /\ last.out.image.height = g_crop[4] - g_crop[2]

\* the second item was not cropped although the first was
C12_Witness ==
    /\ JustSent
    /\ Len(g_sent) = 2
    /\ CropOf(g_sent[1]) # <<>>
    /\ CropOf(g_sent[2]) = <<>>
    /\ "fix_resolution" \notin DOMAIN g_merged
    /\ g_sent[2].out.file.written

(* C17: the parameters posted to the service never hold rounding,          *)
(* fix_resolution, host or port, whatever put them among the item's        *)
(* parameters.                                                             *)
C17_InternalKeysNotSent ==
    \A i \in 1..Len(g_sent) :
        DOMAIN g_sent[i].params \cap {"rounding", "fix_resolution", "host", "port"} = {}

\* all four keys were among the parameters of the item just sent
C17_Witness ==
    /\ JustSent
    /\ {"rounding", "fix_resolution", "host", "port"} \subseteq DOMAIN g_merged
    /\ "steps" \in DOMAIN g_sent[Len(g_sent)].params

(* C19: when writing an item's output fails during save, the failure is    *)
(* caught and reported with the file's name, and the run goes on with the  *)
(* next item instead of stopping.                                          *)
C19_SaveFailureReported ==
    \A i \in 1..Len(g_sent) :
        g_sent[i].out.failed =>
            /\ g_sent[i].outfile \in g_sent[i].out.reported
            /\ g_sent[i].out.raised = ""
            /\ ~(g_pc = "aborted" /\ i = Len(g_sent))

\* the template has a placeholder that string.Template fills with seq
HasSeqPlaceholder(template) ==
    \E i \in 1..Len(template) : template[i] \in {"$seq", "${seq}"}

(* C14: when the template holds a seq placeholder, the output name gen     *)
(* settles on for an item does not name a file that exists at that moment. *)
C14_ChosenNameIsFree ==
    (g_pc = "named" /\ HasSeqPlaceholder(g_opt.template)) => g_outname \notin g_disk

(* C15: an item whose output name was rendered with sequence value n       *)
(* leaves n+1 to the next item, the counter changes nowhere but in the     *)
(* collision loop and at the end of an item, and it never goes down.       *)
C15_NextSeqIsOneMore ==
    [][/\ (g_pc = "named" /\ g_pc' = "item") =>
            /\ g_outname = NameFor(g_opt, g_seq)
            /\ g_seq' = g_seq + 1
       /\ g_pc \notin {"naming", "named"} => g_seq' = g_seq
       /\ g_seq' >= g_seq]_vars

\* the second item starts one above the value that named the first, which
\* had skipped two files
C15_Witness ==
    /\ g_pc = "fixed" /\ g_idx = 2
    /\ g_opt.template = DefaultTemplate
    /\ {Chars("genai-img-0001.png"), Chars("genai-img-0002.png")} \subseteq g_opt.disk
    /\ Len(g_sent) = 1
    /\ g_sent[1].outfile = Chars("genai-img-0003.png")
    /\ g_seq = 4

(* C16: the name-collision loop of gen ends, for every template: once gen  *)
(* has rendered an item's name it settles on a name.                       *)
C16_NamingEnds == (g_pc = "naming") ~> (g_pc = "named")

\* the parameters gen resolves for a source when it is the only item of the run
ResolvedAlone(opt, src) ==
    LET merged == ApplyOverrides(ApplyRules(ItemParams(src), opt.rules), opt.params)
        m == ModelStage(merged, opt.model)
        l == LoraStage(m.params, opt.loras)
    IN  LutStage(l.params, opt.lut_name).params

(* C18: the parameters resolved for an item do not depend on the items     *)
(* before it: after the model, LoRA and LUT references are resolved the    *)
(* item has the parameters it would have as the only item of the run.      *)
C18_ItemsIndependent ==
    g_pc = "lut" => g_params = ResolvedAlone(g_opt, g_sources[g_idx])

(* C21: a width or height of 0 from get_aspect_pixels is a failure of the  *)
(* item: no request of a run with an aspect ratio is sent with width 0 or  *)
(* height 0.                                                               *)
C21_NoZeroSizeSent ==
    g_opt.aspect # <<>> =>
        \A i \in 1..Len(g_sent) :
            /\ "width" \in DOMAIN g_sent[i].params => Truthy(g_sent[i].params["width"])
            /\ "height" \in DOMAIN g_sent[i].params => Truthy(g_sent[i].params["height"])

\* the quality --jpeg-quality asks for: the value given when it is an integer
\* from 1 to 99, the default otherwise
QualityAsked(opt) ==
    IF opt.jpeg_quality # <<>> /\ opt.jpeg_quality[1] > 0 /\ opt.jpeg_quality[1] < 100
    THEN opt.jpeg_quality[1] ELSE 85

(* C22: with JPEG output requested, every image gen post-processes is      *)
(* re-encoded at the quality of --jpeg-quality when that is an integer     *)
(* from 1 to 99, and at 85 otherwise.                                      *)
C22_JpegQualityHonoured ==
    g_opt.jpeg_output =>
        \A i \in 1..Len(g_sent) :
            InList("jpg", g_sent[i].out.log) =>
                g_sent[i].out.quality = QualityAsked(g_opt)

(* C23: with --unsharp-mask every image gen saves went through the         *)
(* unsharp-mask filter first, and without the flag none did.               *)
C23_UnsharpApplied ==
    \A i \in 1..Len(g_sent) :
        g_sent[i].out.file.written =>
            (g_opt.unsharp_mask <=> InList("unsharp", g_sent[i].out.file.pix))

(* C24: with the --fix-resolution flag every request is sent with a width  *)
(* and a height that are multiples of 64.                                  *)
C24_FlagRoundsUp ==
    g_opt.fix_resolution =>
        \A i \in 1..Len(g_sent) :
            \A k \in {"width", "height"} \cap DOMAIN g_sent[i].params :
                CanInt(g_sent[i].params[k]) => ToInt(g_sent[i].params[k]) % 64 = 0

(* C25: the request carries donotsave exactly when --save-on-server was    *)
(* not given.                                                              *)
C25_DoNotSaveUnlessAsked ==
    \A i \in 1..Len(g_sent) :
        ("donotsave" \in DOMAIN g_sent[i].params) <=> ~g_opt.save_on_server

\* the item's merged parameters carry a side length and a rounding
HasRuleSize(params) ==
    /\ {"sidelength", "rounding"} \subseteq DOMAIN params
    /\ Truthy(params["sidelength"]) /\ CanInt(params["sidelength"])
    /\ Truthy(params["rounding"]) /\ CanInt(params["rounding"])
    /\ ToInt(params["rounding"]) > 0

(* C26: with an aspect ratio given and a side length and rounding in the   *)
(* item's merged parameters, the item's width and height are those         *)
(* get_aspect_pixels computes from that side length and rounding.          *)
C26_RuleSideLengthUsed ==
    (g_pc = "dims" /\ g_opt.aspect # <<>> /\ RatioParses(g_opt.aspect)
     /\ HasRuleSize(g_merged)) =>
        <<ToInt(g_params["width"]), ToInt(g_params["height"])>> \in
            get_aspect_pixels(g_opt.aspect, ToInt(g_merged["sidelength"]),
                              ToInt(g_merged["rounding"]))

\* no element of the list occurs twice
NoDuplicates(l) == \A i, j \in 1..Len(l) : l[i] = l[j] => i = j

(* C29: in a re-generation from a file whose metadata lists LoRAs, after   *)
(* the LoRA references are resolved no LoRA name occurs twice in the       *)
(* item's loras.                                                           *)
C29_NoLoraTwice ==
    (/\ g_pc = "loras"
     /\ g_sources[g_idx].isfile
     /\ "loras" \in DOMAIN g_sources[g_idx].meta
     /\ NoDuplicates(g_sources[g_idx].meta["loras"].l)
     /\ "loras" \in DOMAIN g_params
     /\ g_params["loras"].kind = "list") =>
        NoDuplicates(g_params["loras"].l)

(* C27: for every list of LoRA names or weights, _array2str and then       *)
(* _str2array give the list back.                                          *)
C27_RoundTrip == r_pc = "done" => r_out = r_in

\* the round trip on the lists it does give back: those that hold an element
\* and no comma
C27_RoundTripOfPlainLists ==
    (/\ r_pc = "done"
     /\ r_in.l # <<>>
     /\ \A i \in 1..Len(r_in.l) : ~HasChar(r_in.l[i], ",")) => r_out = r_in

\* the larger of two numbers
Larger(a, b) == IF a >= b THEN a ELSE b

\* one pass of the loop takes rounding off the larger dimension, off the
\* width on a tie, and makes the product smaller
ShrinkPass ==
    (a_pc = "loop" /\ a_pc' = "loop") =>
        /\ a_width >= a_height => a_width' = a_width - a_rounding /\ a_height' = a_height
        /\ a_width < a_height => a_height' = a_height - a_rounding /\ a_width' = a_width
        /\ a_width' * a_height' < a_width * a_height

(* C28 as amended: entered with any width and height that are non-negative *)
(* multiples of rounding, the budget loop ends; each pass takes rounding    *)
(* off the larger dimension (off the width on a tie) and makes the product  *)
(* strictly smaller; and the loop ends after at most                        *)
(* (width + height) / rounding passes.                                      *)
C28_ShrinkLoopEnds ==
    /\ [][ShrinkPass]_vars
    /\ [](a_iter * a_rounding <= a_start[1] + a_start[2])
    /\ <>(a_pc = "done")

(* C28 as stated: the same, with at most max(width, height) / rounding     *)
(* passes.                                                                 *)
C28_ShrinkLoopEndsInMax ==
    /\ [][ShrinkPass]_vars
    /\ [](a_iter * a_rounding <= Larger(a_start[1], a_start[2]))
    /\ <>(a_pc = "done")

\* the loop has ended after more passes than max(width, height) / rounding
C28_Witness ==
    /\ a_pc = "done"
    /\ a_iter * a_rounding > Larger(a_start[1], a_start[2])
    /\ a_width > 0 /\ a_height > 0

(* C30: each display's index is within its list of images; and once the    *)
(* rotator has checked the directories, at the rotation step that follows  *)
(* every managed display shows from the files its directory now holds:     *)
(* each display of a changed directory has reloaded its list.              *)
C30_IndexInRangeAndReloaded ==
    /\ \A k \in 1..Len(w_disp) :
        w_disp[k].index >= 0 /\ w_disp[k].index < Len(w_disp[k].images)
    /\ w_pc = "rotate" =>
        \A k \in 1..Len(w_disp) :
            Range(w_disp[k].images) = w_fs[w_disp[k].directory].files

\* the index of every display stays within its list
C30_IndexInRange ==
    \A k \in 1..Len(w_disp) :
        w_disp[k].index >= 0 /\ w_disp[k].index < Len(w_disp[k].images)
====
